---- MODULE Spec2Model ----
(***************************************************************************)
(* State-machine model of the level data model of the level editor        *)
(* (Utils/LevelEditor/data_models.py): Room, Level and FloorLayout, and of *)
(* the handlers of the editor that change it (level_editor.py,             *)
(* layout_editor.py, tile_canvas.py).                                      *)
(*                                                                         *)
(* Fifteen specifications share the variables:                             *)
(*   SpecLevel  - Level.rooms / Level.layout and their mutators            *)
(*   SpecLayout - Level.layout alone, the rooms being there                *)
(*   SpecFloor  - one FloorLayout (grid extent, cells, connections)        *)
(*   SpecCells  - the cells and the extent of a FloorLayout, its doors     *)
(*                left alone                                               *)
(*   SpecDoors  - set_connection alone, between any two of three cells     *)
(*   SpecRoom   - one Room (dimensions, interior) under set_tile,          *)
(*                get_tile and resize                                      *)
(*   SpecValidate - validate on a Level as from_json can load it           *)
(*   SpecLoaded - remove_from_layout / move_in_layout on a loaded layout   *)
(*   SpecButtons - the doors and the extent of the layout editor's grid    *)
(*   SpecJson   - to_json, from_json and validate on a constructed Level   *)
(*   SpecFile   - from_json, to_json and validate on a file written by     *)
(*                hand or by another tool                                  *)
(*   SpecClone  - a Room object and its clone() under set_tile, resize,    *)
(*                and the exits and theme handlers of the editor           *)
(*   SpecUndo   - an UndoStack alone under push, undo, redo and clear      *)
(*   SpecEditor - the room editor on the selected room: tile edits, size   *)
(*                changes, undo and redo                                   *)
(*   SpecCanvas - the canvas of the room editor with its brush             *)
(* Python lists are sequences (index i of the list is index i+1 here), a   *)
(* list comprehension with a filter is SelectSeq;                          *)
(* the return values None / True / False of a method are the strings      *)
(* "None" / "True" / "False".                                              *)
(* op, ret and branch are history variables: the name of the last call,    *)
(* what it returned, and which path of the method's code it took.          *)
(***************************************************************************)
EXTENDS Integers, Sequences, FiniteSets, TLC

VARIABLES
    rooms,        \* Level.rooms: list of Room
    layout,       \* Level.layout: list of LayoutEntry
    removedIds,   \* history: ids of rooms removed and not held by a room now
    rows,         \* FloorLayout.rows
    cols,         \* FloorLayout.cols
    grid,         \* FloorLayout.grid: GridPosition -> room id or None
    connections,  \* FloorLayout.connections: list of RoomConnection
    room,         \* a Room under edit
    op,           \* history: name of the last method called
    ret,          \* history: its return value
    branch,       \* history: the path the call took through the method
    file,         \* the level file on disk: None, or the JSON document in it
    tile_types,   \* Level.tile_types: tile id (as a string) -> description
    heap,         \* Room objects and the lists and dicts they refer to
    new_room,     \* duplicate_room: None, or the Room that clone() returned
    undo_stack,   \* RoomEditorTab.undo_stack: an UndoStack object
    brush_size    \* TileCanvas.brush_size

vars == <<rooms, layout, removedIds, rows, cols, grid, connections, room,
          op, ret, branch, file, tile_types, heap, new_room, undo_stack,
          brush_size>>

cloneVars == <<heap, new_room>>
editorVars == <<undo_stack, brush_size>>

levelVars == <<rooms, layout, removedIds, tile_types>>
floorVars == <<rows, cols, grid, connections>>

(***************************************************************************)
(* Bounds of the model.                                                    *)
(***************************************************************************)
MaxRoomId == 2      \* room ids passed to the Level are 0..MaxRoomId
MaxRooms == 2       \* add_room is not called on a Level holding this many
MaxLayout == 3      \* add_to_layout is not called on a layout this long
LevelRoomSize == 3  \* width and height of the rooms added to the Level
MaxCells == 4       \* add_row / add_column are not called beyond this many cells
MaxConnections == 2 \* set_connection is not called to store more than this many
MaxRoomSide == 4    \* the room under edit has width and height 2..MaxRoomSide
MaxLoadedRooms == 2 \* a loaded Level has at most this many rooms
MaxLoadedLayout == 2 \* and at most this many layout entries
MaxCloneHeight == 3 \* the room that is duplicated has height 2..MaxCloneHeight
MaxSize == 3        \* an UndoStack alone has max_size 1..MaxSize
MaxSnapshots == 2   \* no tile is edited once the undo list holds this many

Min(a, b) == IF a < b THEN a ELSE b

\* An Optional value is a set: {} is None and {v} is v.
None == {}
Some(v) == {v}

\* no Room object is being duplicated
CloneIdle == heap = <<>> /\ new_room = None

(***************************************************************************)
(* TileType                                                                *)
(***************************************************************************)
EMPTY == 0
BLOCK == 1
PLATFORM == 2
SPAWN == 8
SEARCHABLE == 9

(***************************************************************************)
(* Room                                                                    *)
(***************************************************************************)
\* Room.__init__: an interior of height-2 rows by width-2 columns of EMPTY
\* (range() of a non-positive number is empty), no exits, the default theme.
RoomInit(room_id, width, height) ==
    [id       |-> room_id,
     width    |-> width,
     height   |-> height,
     interior |-> [y \in 1..(height - 2) |-> [x \in 1..(width - 2) |-> EMPTY]],
     exits    |-> [left |-> None, right |-> None],
     theme    |-> [wall_color |-> "darkgray", floor_color |-> "gray",
                   ceiling_color |-> "gray"]]

\* Room.get_interior_width() / Room.get_interior_height()
get_interior_width(r) == r.width - 2
get_interior_height(r) == r.height - 2

\* len(self.interior[0]), read only once a row is known to exist
RowLength(interior) == Len(interior[1])

\* the bounds test of get_tile and set_tile (0-based x, y); the test on x is
\* not evaluated when the test on y fails
InInterior(interior, x, y) ==
    /\ 0 <= y
    /\ y < Len(interior)
    /\ 0 <= x
    /\ x < RowLength(interior)

\* Room.get_tile(x, y)
get_tile(r, x, y) ==
    IF InInterior(r.interior, x, y) THEN r.interior[y + 1][x + 1] ELSE EMPTY

\* set_tile whose test on x is 0 < x: column 0 is never written
Room_set_tile_OffByOne(r, x, y, tile_type) ==
    IF InInterior(r.interior, x, y) /\ 0 < x
    THEN [r EXCEPT !.interior[y + 1][x + 1] = tile_type]
    ELSE r

\* Room.set_tile(x, y, tile_type): the room afterwards
Room_set_tile(r, x, y, tile_type) ==
    IF InInterior(r.interior, x, y)
    THEN [r EXCEPT !.interior[y + 1][x + 1] = tile_type]
    ELSE r

\* resize that builds rows of new_width entries, the walls counted in
Room_resize_TotalWidth(r, new_width, new_height) ==
    LET old_interior == r.interior
        new_interior_height == new_height - 2
    IN  [r EXCEPT
            !.width = new_width,
            !.height = new_height,
            !.interior =
                [y \in 1..new_interior_height |->
                    [x \in 1..new_width |->
                        IF /\ y <= Min(Len(old_interior), new_interior_height)
                           /\ x <= Min(RowLength(old_interior), new_width)
                        THEN old_interior[y][x]
                        ELSE EMPTY]]]

\* resize whose row loop stops one row short of the overlap
Room_resize_RowShort(r, new_width, new_height) ==
    LET old_interior == r.interior
        new_interior_width == new_width - 2
        new_interior_height == new_height - 2
    IN  [r EXCEPT
            !.width = new_width,
            !.height = new_height,
            !.interior =
                [y \in 1..new_interior_height |->
                    [x \in 1..new_interior_width |->
                        IF /\ y <= Min(Len(old_interior), new_interior_height) - 1
                           /\ x <= Min(RowLength(old_interior), new_interior_width)
                        THEN old_interior[y][x]
                        ELSE EMPTY]]]

\* Room.resize(new_width, new_height): the room afterwards. The new interior
\* is all EMPTY, then the copy loops run over y < min(len(old), new height)
\* and x < min(len(old[0]), new width); len(old[0]) is read only inside the
\* loop over y.
Room_resize(r, new_width, new_height) ==
    LET old_interior == r.interior
        new_interior_width == new_width - 2
        new_interior_height == new_height - 2
    IN  [r EXCEPT
            !.width = new_width,
            !.height = new_height,
            !.interior =
                [y \in 1..new_interior_height |->
                    [x \in 1..new_interior_width |->
                        IF /\ y <= Min(Len(old_interior), new_interior_height)
                           /\ x <= Min(RowLength(old_interior), new_interior_width)
                        THEN old_interior[y][x]
                        ELSE EMPTY]]]

\* how a new extent compares with the old one
Change(old, new, more, less) ==
    IF new > old THEN more ELSE IF new < old THEN less ELSE "same"

\* a call of Room.set_tile on the room under edit
set_tile(x, y, tile_type) ==
    /\ op' = "set_tile"
    /\ ret' = "None"
    /\ branch' = IF InInterior(room.interior, x, y) THEN "in interior"
                 ELSE "outside interior"
    /\ room' = Room_set_tile(room, x, y, tile_type)
    /\ UNCHANGED <<levelVars, floorVars, file, cloneVars, editorVars>>

\* a call of Room.get_tile on the room under edit; ret is the tile id
Room_get_tile(x, y) ==
    /\ op' = "get_tile"
    /\ ret' = get_tile(room, x, y)
    /\ branch' = IF InInterior(room.interior, x, y) THEN "in interior"
                 ELSE "outside interior"
    /\ UNCHANGED <<room, levelVars, floorVars, file, cloneVars, editorVars>>

\* a call of Room.resize on the room under edit
resize(new_width, new_height) ==
    /\ room' = Room_resize(room, new_width, new_height)
    /\ op' = "resize"
    /\ ret' = "None"
    /\ branch' = Change(room.width, new_width, "wider", "narrower") \o "/" \o
                 Change(room.height, new_height, "taller", "shorter")
    /\ UNCHANGED <<levelVars, floorVars, file, cloneVars, editorVars>>

(***************************************************************************)
(* Level                                                                   *)
(***************************************************************************)
RoomIds == 0..MaxRoomId
LayoutArgs == (0 - 1)..(MaxLayout + 1)

LayoutEntry(room_id, position) == [room_id |-> room_id, position |-> position]

\* any(r.id == room_id for r in self.rooms)
HasRoom(rs, room_id) == \E i \in 1..Len(rs) : rs[i].id = room_id

\* list.sort(key=lambda le: le.position): a stable sort by position,
\* here as an insertion sort that puts an entry after its equals.
RECURSIVE InsertByPosition(_, _)
InsertByPosition(sorted, le) ==
    IF sorted = <<>> THEN <<le>>
    ELSE IF le.position < Head(sorted).position THEN <<le>> \o sorted
         ELSE <<Head(sorted)>> \o InsertByPosition(Tail(sorted), le)

RECURSIVE SortByPosition(_)
SortByPosition(l) ==
    IF l = <<>> THEN <<>>
    ELSE InsertByPosition(SortByPosition(SubSeq(l, 1, Len(l) - 1)), l[Len(l)])

\* for i, le in enumerate(self.layout): le.position = i
Renumber(l) == [i \in 1..Len(l) |-> [l[i] EXCEPT !.position = i - 1]]

\* Resequence without the renumbering loop
Resequence_NoRenumber(l) == SortByPosition(l)

\* self.layout.sort(key=...) followed by the renumbering loop
Resequence(l) == Renumber(SortByPosition(l))

\* max(r.id for r in self.rooms)
MaxId(rs) == CHOOSE m \in {rs[i].id : i \in 1..Len(rs)} :
                 \A j \in 1..Len(rs) : rs[j].id <= m

\* get_next_room_id as len(rooms)+1
get_next_room_id_ByCount(rs) == Len(rs) + 1

\* get_next_room_id as the smallest id >= 1 that no room holds
get_next_room_id_FirstFree(rs) ==
    CHOOSE n \in 1..(Len(rs) + 1) :
        /\ ~HasRoom(rs, n)
        /\ \A m \in 1..(n - 1) : HasRoom(rs, m)

\* Level.get_next_room_id
get_next_room_id(rs) == IF rs = <<>> THEN 1 ELSE MaxId(rs) + 1

\* list.pop(i) / list.insert(i, e) with 0-based in-range i
ListPop(l, i) == SubSeq(l, 1, i) \o SubSeq(l, i + 2, Len(l))
ListInsert(l, i, e) == SubSeq(l, 1, i) \o <<e>> \o SubSeq(l, i + 1, Len(l))

\* add_room without the test for an existing id: it always appends
Level_add_room_NoCheck(r) ==
    /\ rooms' = Append(rooms, r)
    /\ removedIds' = removedIds \ {r.id}
    /\ ret' = "True"
    /\ branch' = "appended"

\* Level.add_room(room): what it does to the Level and what it returns
Level_add_room(r) ==
    IF HasRoom(rooms, r.id)
    THEN /\ rooms' = rooms
         /\ removedIds' = removedIds
         /\ ret' = "False"
         /\ branch' = "duplicate id"
    ELSE /\ rooms' = Append(rooms, r)
         /\ removedIds' = removedIds \ {r.id}
         /\ ret' = "True"
         /\ branch' = "appended"

\* a call of Level.add_room with a room of the caller's own id
add_room(r) ==
    /\ HasRoom(rooms, r.id) \/ Len(rooms) < MaxRooms
    /\ Level_add_room(r)
    /\ op' = "add_room"
    /\ UNCHANGED <<layout, floorVars, room, file, tile_types, cloneVars, editorVars>>

\* RoomEditorTab.create_new_room: the id comes from get_next_room_id. (The
\* editor passes width 64 and height 36; the Level never reads a room's size
\* and the model adds a smaller room.)
create_new_room ==
    /\ Len(rooms) < MaxRooms
    /\ Level_add_room(RoomInit(get_next_room_id(rooms), LevelRoomSize,
                               LevelRoomSize))
    /\ op' = "create_new_room"
    /\ UNCHANGED <<layout, floorVars, room, file, tile_types, cloneVars, editorVars>>

\* remove_room that also empties the floor cells holding the removed id
remove_room_ClearsCells(room_id) ==
    LET keepRoom(r) == r.id # room_id
        keepEntry(le) == le.room_id # room_id
    IN  /\ rooms' = SelectSeq(rooms, keepRoom)
        /\ layout' = Resequence(SelectSeq(layout, keepEntry))
        /\ removedIds' = IF HasRoom(rooms, room_id)
                         THEN removedIds \cup {room_id} ELSE removedIds
        /\ grid' = [pos \in DOMAIN grid |->
                        IF grid[pos] = {room_id} THEN {} ELSE grid[pos]]
        /\ op' = "remove_room"
        /\ ret' = "None"
        /\ branch' = IF HasRoom(rooms, room_id) THEN "removed" ELSE "no such room"
        /\ UNCHANGED <<rows, cols, connections, room, file, tile_types, cloneVars, editorVars>>

\* Level.remove_room(room_id)
remove_room(room_id) ==
    LET keepRoom(r) == r.id # room_id
        keepEntry(le) == le.room_id # room_id
    IN  /\ rooms' = SelectSeq(rooms, keepRoom)
        /\ layout' = Resequence(SelectSeq(layout, keepEntry))
        /\ removedIds' = IF HasRoom(rooms, room_id)
                         THEN removedIds \cup {room_id} ELSE removedIds
        /\ op' = "remove_room"
        /\ ret' = "None"
        /\ branch' = IF HasRoom(rooms, room_id) THEN "removed" ELSE "no such room"
        /\ UNCHANGED <<floorVars, room, file, tile_types, cloneVars, editorVars>>

\* add_to_layout without the test that the room exists
add_to_layout_NoCheck(room_id) ==
    /\ Len(layout) < MaxLayout
    /\ layout' = Append(layout, LayoutEntry(room_id, Len(layout)))
    /\ ret' = "True"
    /\ branch' = "appended"
    /\ op' = "add_to_layout"
    /\ UNCHANGED <<rooms, removedIds, floorVars, room, file, tile_types, cloneVars, editorVars>>

\* Level.add_to_layout(room_id)
add_to_layout(room_id) ==
    /\ ~HasRoom(rooms, room_id) \/ Len(layout) < MaxLayout
    /\ IF ~HasRoom(rooms, room_id)
       THEN /\ layout' = layout
            /\ ret' = "False"
            /\ branch' = "no such room"
       ELSE /\ layout' = Append(layout, LayoutEntry(room_id, Len(layout)))
            /\ ret' = "True"
            /\ branch' = "appended"
    /\ op' = "add_to_layout"
    /\ UNCHANGED <<rooms, removedIds, floorVars, room, file, tile_types, cloneVars, editorVars>>

\* remove_from_layout dropping every entry of the room that is at the position
remove_from_layout_WholeRoom(position) ==
    LET atPosition == {layout[i].room_id : i \in {k \in 1..Len(layout) :
                                               layout[k].position = position}}
        keepEntry(le) == le.room_id \notin atPosition
    IN  /\ layout' = Resequence(SelectSeq(layout, keepEntry))
        /\ op' = "remove_from_layout"
        /\ ret' = "None"
        /\ branch' = IF atPosition # {} THEN "removed" ELSE "no such position"
        /\ UNCHANGED <<rooms, removedIds, floorVars, room, file, tile_types, cloneVars, editorVars>>

\* Level.remove_from_layout(position)
remove_from_layout(position) ==
    LET keepEntry(le) == le.position # position
    IN  /\ layout' = Resequence(SelectSeq(layout, keepEntry))
        /\ op' = "remove_from_layout"
        /\ ret' = "None"
        /\ branch' = IF \E i \in 1..Len(layout) : layout[i].position = position
                     THEN "removed" ELSE "no such position"
        /\ UNCHANGED <<rooms, removedIds, floorVars, room, file, tile_types, cloneVars, editorVars>>

\* move_in_layout without the renumbering loop
move_in_layout_NoRenumber(old_position, new_position) ==
    /\ IF \/ old_position < 0 \/ old_position >= Len(layout)
          \/ new_position < 0 \/ new_position >= Len(layout)
       THEN /\ layout' = layout
            /\ branch' = "out of range"
       ELSE /\ layout' = ListInsert(ListPop(layout, old_position),
                                    new_position, layout[old_position + 1])
            /\ branch' = IF old_position = new_position THEN "same place"
                         ELSE "moved"
    /\ op' = "move_in_layout"
    /\ ret' = "None"
    /\ UNCHANGED <<rooms, removedIds, floorVars, room, file, tile_types, cloneVars, editorVars>>

\* move_in_layout exchanging the two entries instead of pop and insert
move_in_layout_Swap(old_position, new_position) ==
    /\ IF \/ old_position < 0 \/ old_position >= Len(layout)
          \/ new_position < 0 \/ new_position >= Len(layout)
       THEN /\ layout' = layout
            /\ branch' = "out of range"
       ELSE /\ layout' = Renumber([layout EXCEPT
                              ![old_position + 1] = layout[new_position + 1],
                              ![new_position + 1] = layout[old_position + 1]])
            /\ branch' = IF old_position = new_position THEN "same place"
                         ELSE "moved"
    /\ op' = "move_in_layout"
    /\ ret' = "None"
    /\ UNCHANGED <<rooms, removedIds, floorVars, room, file, tile_types, cloneVars, editorVars>>

\* Level.move_in_layout(old_position, new_position)
move_in_layout(old_position, new_position) ==
    /\ IF \/ old_position < 0 \/ old_position >= Len(layout)
          \/ new_position < 0 \/ new_position >= Len(layout)
       THEN /\ layout' = layout
            /\ branch' = "out of range"
       ELSE /\ layout' = Renumber(ListInsert(ListPop(layout, old_position),
                                             new_position,
                                             layout[old_position + 1]))
            /\ branch' = IF old_position = new_position THEN "same place"
                         ELSE "moved"
    /\ op' = "move_in_layout"
    /\ ret' = "None"
    /\ UNCHANGED <<rooms, removedIds, floorVars, room, file, tile_types, cloneVars, editorVars>>

(***************************************************************************)
(* Level.validate. An error message is a record: text is the f-string of   *)
(* the code, and the values formatted into it are the other fields.        *)
(***************************************************************************)
DuplicateIdsError == [text |-> "Duplicate room IDs found"]
HeightError(room_id) ==
    [text |-> "Room {room.id}: Interior height mismatch", room |-> room_id]
WidthError(room_id) ==
    [text |-> "Room {room.id}: Interior width mismatch", room |-> room_id]
ReferenceError(room_id) ==
    [text |-> "Layout references non-existent room {entry.room_id}",
     room |-> room_id]
PositionsError == [text |-> "Layout positions are not sequential"]
NoSpawnError ==
    [text |-> "No spawn point found in level (place exactly 1 spawn tile)"]
\* a location is "Room {room.id} at ({x}, {y})": the triple <<room.id, x, y>>
MultipleSpawnError(spawn_count, spawn_locations) ==
    [text |-> "Multiple spawn points found ({spawn_count}). Only 1 spawn allowed. Locations: {', '.join(spawn_locations)}",
     count |-> spawn_count, locations |-> spawn_locations]

\* check 1: len(room_ids) != len(set(room_ids))
ValidateIds(rs) ==
    IF Len(rs) # Cardinality({rs[i].id : i \in 1..Len(rs)})
    THEN <<DuplicateIdsError>> ELSE <<>>

\* check 2 on one room: the height test, then the loop over the rows that
\* stops at the first row of a wrong length
ValidateInterior(r) ==
    (IF Len(r.interior) # r.height - 2 THEN <<HeightError(r.id)>> ELSE <<>>)
    \o (IF \E y \in 1..Len(r.interior) : Len(r.interior[y]) # r.width - 2
        THEN <<WidthError(r.id)>> ELSE <<>>)

\* check 2 over the rooms, in list order
RECURSIVE ValidateInteriors(_)
ValidateInteriors(rs) ==
    IF rs = <<>> THEN <<>>
    ELSE ValidateInterior(Head(rs)) \o ValidateInteriors(Tail(rs))

\* check 3: one error for every entry whose room_id no room has
ValidateReferences(rs, l) ==
    LET dangling(le) == ~HasRoom(rs, le.room_id)
        bad == SelectSeq(l, dangling)
    IN  [i \in 1..Len(bad) |-> ReferenceError(bad[i].room_id)]

\* check 4: sorted(positions) != list(range(len(layout)))
ValidatePositions(l) ==
    LET positions == SortByPosition(l)
    IN  IF \E i \in 1..Len(l) : positions[i].position # i - 1
        THEN <<PositionsError>> ELSE <<>>

\* the Spawn tiles of one row: for x, tile_id in enumerate(row)
SpawnsOfRow(room_id, row, y) ==
    LET xs == [i \in 1..Len(row) |-> i - 1]
        isSpawn(x) == row[x + 1] = SPAWN
        hits == SelectSeq(xs, isSpawn)
    IN  [i \in 1..Len(hits) |-> <<room_id, hits[i], y>>]

\* for y, row in enumerate(room.interior), from row y on
RECURSIVE SpawnsOfRoom(_, _)
SpawnsOfRoom(r, y) ==
    IF y >= Len(r.interior) THEN <<>>
    ELSE SpawnsOfRow(r.id, r.interior[y + 1], y) \o SpawnsOfRoom(r, y + 1)

\* spawn_locations: for room in self.rooms
RECURSIVE SpawnLocations(_)
SpawnLocations(rs) ==
    IF rs = <<>> THEN <<>>
    ELSE SpawnsOfRoom(Head(rs), 0) \o SpawnLocations(Tail(rs))

\* check 5 reporting a second spawn only when it is in another room
ValidateSpawn_PerRoom(rs) ==
    LET spawn_locations == SpawnLocations(rs)
        spawn_rooms == {spawn_locations[i][1] : i \in 1..Len(spawn_locations)}
    IN  IF Len(spawn_locations) = 0 THEN <<NoSpawnError>>
        ELSE IF Cardinality(spawn_rooms) > 1
             THEN <<MultipleSpawnError(Len(spawn_locations), spawn_locations)>>
             ELSE <<>>

\* check 5: spawn_count == 0, or spawn_count > 1
ValidateSpawn(rs) ==
    LET spawn_locations == SpawnLocations(rs)
        spawn_count == Len(spawn_locations)
    IN  IF spawn_count = 0 THEN <<NoSpawnError>>
        ELSE IF spawn_count > 1
             THEN <<MultipleSpawnError(spawn_count, spawn_locations)>>
             ELSE <<>>

\* validate returning at the first check that finds an error
Level_validate_StopsAtFirst(rs, l) ==
    IF ValidateIds(rs) # <<>> THEN ValidateIds(rs)
    ELSE IF ValidateInteriors(rs) # <<>> THEN ValidateInteriors(rs)
    ELSE IF ValidateReferences(rs, l) # <<>> THEN ValidateReferences(rs, l)
    ELSE IF ValidatePositions(l) # <<>> THEN ValidatePositions(l)
    ELSE ValidateSpawn(rs)

\* Level.validate(): the list of errors
Level_validate(rs, l) ==
    ValidateIds(rs) \o ValidateInteriors(rs) \o ValidateReferences(rs, l)
    \o ValidatePositions(l) \o ValidateSpawn(rs)

(***************************************************************************)
(* DoorPosition, GridPosition, RoomConnection                              *)
(***************************************************************************)
DoorPositions == {"none", "top", "mid", "bot"}

\* GridPosition(row, col): equality and hashing are those of the pair
GridPosition(row, col) == <<row, col>>

RoomConnection(from_pos, to_pos, door_position) ==
    [from_pos |-> from_pos, to_pos |-> to_pos, door_position |-> door_position]

(***************************************************************************)
(* FloorLayout                                                             *)
(***************************************************************************)

\* FloorLayout.__init__: every cell of rows x cols is None, no connections
FloorGridInit(nrows, ncols) ==
    [pos \in {GridPosition(r, c) : r \in 0..(nrows - 1), c \in 0..(ncols - 1)}
        |-> None]

\* self.grid.get(pos)
GridGet(g, pos) == IF pos \in DOMAIN g THEN g[pos] ELSE None

\* del self.grid[pos] for every pos of gone
GridDel(g, gone) == [pos \in (DOMAIN g) \ gone |-> g[pos]]

\* growth that makes no entry for the new cells
GridAdd_NoEntry(g, fresh) == g

\* growth that sets every cell of the grid to None, the old ones too
GridAdd_ClearsAll(g, fresh) == [pos \in (DOMAIN g) \cup fresh |-> None]

\* self.grid[pos] = None for every pos of fresh
GridAdd(g, fresh) ==
    [pos \in (DOMAIN g) \cup fresh |-> IF pos \in fresh THEN None ELSE g[pos]]

\* the test of set_connection and get_connection: either orientation
Joins(c, from_pos, to_pos) ==
    \/ c.from_pos = from_pos /\ c.to_pos = to_pos
    \/ c.from_pos = to_pos /\ c.to_pos = from_pos

\* FloorLayout.get_connection: the first record joining the two positions
get_connection(conns, from_pos, to_pos) ==
    IF \E i \in 1..Len(conns) : Joins(conns[i], from_pos, to_pos)
    THEN LET first == CHOOSE i \in 1..Len(conns) :
                         /\ Joins(conns[i], from_pos, to_pos)
                         /\ \A j \in 1..(i - 1) : ~Joins(conns[j], from_pos, to_pos)
         IN  Some(conns[first])
    ELSE None

\* set_connection stripping only the record stored in the call's orientation
SetConnection_KeepsReverse(conns, from_pos, to_pos, door_position) ==
    LET other(c) == ~(c.from_pos = from_pos /\ c.to_pos = to_pos)
        kept == SelectSeq(conns, other)
    IN  IF door_position # "none"
        THEN Append(kept, RoomConnection(from_pos, to_pos, door_position))
        ELSE kept

\* set_connection appending without stripping the pair's existing record
SetConnection_NoStrip(conns, from_pos, to_pos, door_position) ==
    IF door_position # "none"
    THEN Append(conns, RoomConnection(from_pos, to_pos, door_position))
    ELSE conns

\* set_connection without the test for NONE: "none" is stored as a record
SetConnection_StoresNone(conns, from_pos, to_pos, door_position) ==
    LET other(c) == ~Joins(c, from_pos, to_pos)
    IN  Append(SelectSeq(conns, other),
               RoomConnection(from_pos, to_pos, door_position))

\* set_connection that tests for TOP where the code tests for NONE
SetConnection_WrongSentinel(conns, from_pos, to_pos, door_position) ==
    LET other(c) == ~Joins(c, from_pos, to_pos)
        kept == SelectSeq(conns, other)
    IN  IF door_position # "top"
        THEN Append(kept, RoomConnection(from_pos, to_pos, door_position))
        ELSE kept

\* FloorLayout.set_connection: the new value of self.connections
SetConnection(conns, from_pos, to_pos, door_position) ==
    LET other(c) == ~Joins(c, from_pos, to_pos)
        kept == SelectSeq(conns, other)
    IN  IF door_position # "none"
        THEN Append(kept, RoomConnection(from_pos, to_pos, door_position))
        ELSE kept

\* how the pair was stored before a set_connection call
StoredAs(conns, from_pos, to_pos) ==
    IF \E i \in 1..Len(conns) :
          conns[i].from_pos = from_pos /\ conns[i].to_pos = to_pos
    THEN "same"
    ELSE IF \E i \in 1..Len(conns) : Joins(conns[i], from_pos, to_pos)
         THEN "reverse"
         ELSE "absent"

\* place_room without the test pos in self.grid: a position outside the grid
\* gets an entry
place_room_Anywhere(pos, room_id) ==
    /\ grid' = [p \in (DOMAIN grid) \cup {pos} |->
                   IF p = pos THEN room_id ELSE grid[p]]
    /\ branch' = IF pos \in DOMAIN grid THEN "in grid" ELSE "outside grid"
    /\ op' = "place_room"
    /\ ret' = "None"
    /\ UNCHANGED <<rows, cols, connections, levelVars, room, file, cloneVars, editorVars>>

\* FloorLayout.place_room(pos, room_id)
place_room(pos, room_id) ==
    /\ IF pos \in DOMAIN grid
       THEN /\ grid' = [grid EXCEPT ![pos] = room_id]
            /\ branch' = "in grid"
       ELSE /\ grid' = grid
            /\ branch' = "outside grid"
    /\ op' = "place_room"
    /\ ret' = "None"
    /\ UNCHANGED <<rows, cols, connections, levelVars, room, file, cloneVars, editorVars>>

\* FloorLayout.add_row
add_row ==
    /\ (rows + 1) * cols <= MaxCells
    /\ rows' = rows + 1
    /\ grid' = GridAdd(grid, {GridPosition(rows' - 1, c) : c \in 0..(cols - 1)})
    /\ op' = "add_row"
    /\ ret' = "None"
    /\ branch' = "added"
    /\ UNCHANGED <<cols, connections, levelVars, room, file, cloneVars, editorVars>>

\* FloorLayout.add_column
add_column ==
    /\ rows * (cols + 1) <= MaxCells
    /\ cols' = cols + 1
    /\ grid' = GridAdd(grid, {GridPosition(r, cols' - 1) : r \in 0..(rows - 1)})
    /\ op' = "add_column"
    /\ ret' = "None"
    /\ branch' = "added"
    /\ UNCHANGED <<rows, connections, levelVars, room, file, cloneVars, editorVars>>

\* the pruning of remove_row testing the from end of a connection only
RowPrune_FromOnly(conns, nrows) ==
    LET inside(c) == c.from_pos[1] < nrows
    IN  SelectSeq(conns, inside)

\* the pruning of remove_column keeping every connection
ColumnPrune_KeepsAll(conns, ncols) == conns

\* remove_row: the connections kept once self.rows has been decremented
RowPrune(conns, nrows) ==
    LET inside(c) == c.from_pos[1] < nrows /\ c.to_pos[1] < nrows
    IN  SelectSeq(conns, inside)

\* remove_column: the connections kept once self.cols has been decremented
ColumnPrune(conns, ncols) ==
    LET inside(c) == c.from_pos[2] < ncols /\ c.to_pos[2] < ncols
    IN  SelectSeq(conns, inside)

\* remove_row without the guard on the last row
RowIsLast_Never(nrows) == FALSE

\* remove_row: the guard of the first return False
RowIsLast(nrows) == nrows <= 1

\* remove_column: the guard of the first return False
ColumnIsLast(ncols) == ncols <= 1

\* the emptiness loop of remove_row looking at column 0 only
BottomRowOccupied_FirstCellOnly ==
    GridGet(grid, GridPosition(rows - 1, 0)) # None

\* the emptiness loop of remove_row looking at row 0 instead of the bottom row
BottomRowOccupied_TopRow ==
    \E c \in 0..(cols - 1) : GridGet(grid, GridPosition(0, c)) # None

\* remove_row: the loop that returns False on a cell of the bottom row
BottomRowOccupied ==
    \E c \in 0..(cols - 1) : GridGet(grid, GridPosition(rows - 1, c)) # None

\* remove_column: the loop that returns False on a cell of the right column
RightColumnOccupied ==
    \E r \in 0..(rows - 1) : GridGet(grid, GridPosition(r, cols - 1)) # None

\* FloorLayout.remove_row
remove_row ==
    /\ IF RowIsLast(rows)
       THEN /\ UNCHANGED <<rows, grid, connections>>
            /\ ret' = "False"
            /\ branch' = "last row"
       ELSE IF BottomRowOccupied
       THEN /\ UNCHANGED <<rows, grid, connections>>
            /\ ret' = "False"
            /\ branch' = "not empty"
       ELSE /\ grid' = GridDel(grid, {GridPosition(rows - 1, c) : c \in 0..(cols - 1)})
            /\ rows' = rows - 1
            /\ connections' = RowPrune(connections, rows')
            /\ ret' = "True"
            /\ branch' = "removed"
    /\ op' = "remove_row"
    /\ UNCHANGED <<cols, levelVars, room, file, cloneVars, editorVars>>

\* FloorLayout.remove_column
remove_column ==
    /\ IF ColumnIsLast(cols)
       THEN /\ UNCHANGED <<cols, grid, connections>>
            /\ ret' = "False"
            /\ branch' = "last column"
       ELSE IF RightColumnOccupied
       THEN /\ UNCHANGED <<cols, grid, connections>>
            /\ ret' = "False"
            /\ branch' = "not empty"
       ELSE /\ grid' = GridDel(grid, {GridPosition(r, cols - 1) : r \in 0..(rows - 1)})
            /\ cols' = cols - 1
            /\ connections' = ColumnPrune(connections, cols')
            /\ ret' = "True"
            /\ branch' = "removed"
    /\ op' = "remove_column"
    /\ UNCHANGED <<rows, levelVars, room, file, cloneVars, editorVars>>

\* FloorLayout.set_connection(from_pos, to_pos, door_position)
set_connection(from_pos, to_pos, door_position) ==
    /\ connections' = SetConnection(connections, from_pos, to_pos, door_position)
    /\ Len(connections') <= MaxConnections
    /\ op' = "set_connection"
    /\ ret' = "None"
    /\ branch' = StoredAs(connections, from_pos, to_pos) \o "/" \o door_position
    /\ UNCHANGED <<rows, cols, grid, levelVars, room, file, cloneVars, editorVars>>

(***************************************************************************)
(* Export and import. The file holds the JSON document that to_json        *)
(* writes: an object is a record, an array a sequence, a string a string.  *)
(* json.dumps writes None as null and json.load reads it back: beside      *)
(* other values, null is the record JsonNull and a value v is              *)
(* JsonValue(v). A number that json.dumps writes is the number; a number   *)
(* that to_json formats itself, with an f-string or str(), is its decimal  *)
(* text, which json.load reads as the number of that text.                 *)
(***************************************************************************)
\* data.get whose default is the empty list whatever the caller gives
dict_get_EmptyDefault(data, key, default) ==
    IF key \in DOMAIN data THEN data[key] ELSE <<>>

\* data.get(key, default) of a dictionary
dict_get(data, key, default) ==
    IF key \in DOMAIN data THEN data[key] ELSE default

JsonNull == [json |-> "null"]
JsonValue(v) == [json |-> "value", value |-> v]

\* json.dumps / json.load of an Optional value
json_dumps_optional(o) ==
    IF o = None THEN JsonNull ELSE JsonValue(CHOOSE v \in o : TRUE)
json_load_optional(j) == IF j.json = "null" THEN None ELSE Some(j.value)

\* str(x) of an int, and the number json.load reads from a decimal text
str(x) == ToString(x)
JsonInts == (0 - 1)..10
json_load_number(text) == CHOOSE n \in JsonInts : ToString(n) = text

\* Level.__init__: the table self.tile_types starts as
DefaultTileTypes ==
    "0" :> [name |-> "empty", solidType |-> "none"] @@
    "1" :> [name |-> "block", color |-> "brown", solidType |-> "block"] @@
    "2" :> [name |-> "platform", color |-> "green", solidType |-> "platform"] @@
    "8" :> [name |-> "spawn", color |-> "magenta", solidType |-> "none"] @@
    "9" :> [name |-> "searchable", solidType |-> "none"]

\* format_interior: every row is "[" + ",".join(str(x) for x in row) + "]"
format_interior(interior) ==
    [y \in 1..Len(interior) |->
        [x \in 1..Len(interior[y]) |-> str(interior[y][x])]]

\* the object to_json writes for one room
RoomJson(r) ==
    [id       |-> str(r.id),
     width    |-> str(r.width),
     height   |-> str(r.height),
     interior |-> format_interior(r.interior),
     exits    |-> [left  |-> json_dumps_optional(r.exits.left),
                   right |-> json_dumps_optional(r.exits.right)],
     theme    |-> r.theme]

\* json.load of the object of one room
json_load_room(j) ==
    [id       |-> json_load_number(j.id),
     width    |-> json_load_number(j.width),
     height   |-> json_load_number(j.height),
     interior |-> [y \in 1..Len(j.interior) |->
                      [x \in 1..Len(j.interior[y]) |->
                          json_load_number(j.interior[y][x])]],
     exits    |-> [left  |-> json_load_optional(j.exits.left),
                   right |-> json_load_optional(j.exits.right)],
     theme    |-> j.theme]

\* Room.from_dict that leaves the exits as the constructor made them
Room_from_dict_DefaultExits(data) ==
    [RoomInit(data.id, data.width, data.height) EXCEPT
        !.interior = data.interior,
        !.theme = data.theme]

\* Room.from_dict that leaves the interior as the constructor made it
Room_from_dict_EmptyInterior(data) ==
    [RoomInit(data.id, data.width, data.height) EXCEPT
        !.exits = data.exits,
        !.theme = data.theme]

\* Room.from_dict: the constructor, then interior, exits and theme as given
Room_from_dict(data) ==
    [RoomInit(data.id, data.width, data.height) EXCEPT
        !.interior = data.interior,
        !.exits = data.exits,
        !.theme = data.theme]

LayoutEntry_to_dict(le) == [room_id |-> le.room_id, position |-> le.position]
LayoutEntry_from_dict(data) == LayoutEntry(data.room_id, data.position)

GridPosition_to_dict(pos) == [row |-> pos[1], col |-> pos[2]]
GridPosition_from_dict(data) == GridPosition(data.row, data.col)

RoomConnection_to_dict(c) ==
    [from |-> GridPosition_to_dict(c.from_pos),
     to |-> GridPosition_to_dict(c.to_pos),
     door_position |-> c.door_position]
RoomConnection_from_dict(data) ==
    RoomConnection(GridPosition_from_dict(data.from),
                   GridPosition_from_dict(data.to), data.door_position)

\* a FloorLayout object: its four fields
FloorLayout(nrows, ncols, g, conns) ==
    [rows |-> nrows, cols |-> ncols, grid |-> g, connections |-> conns]

\* FloorLayout.to_dict: the grid becomes a list of rows x cols cells, read
\* with self.grid.get
FloorLayout_to_dict(fl) ==
    [rows |-> fl.rows,
     cols |-> fl.cols,
     grid |-> [r \in 1..fl.rows |->
                  [c \in 1..fl.cols |->
                      GridGet(fl.grid, GridPosition(r - 1, c - 1))]],
     connections |-> [i \in 1..Len(fl.connections) |->
                         RoomConnection_to_dict(fl.connections[i])]]

\* FloorLayout.from_dict: the constructor, then every cell of rows x cols
\* from grid_list[row][col], then the connections
FloorLayout_from_dict(data) ==
    FloorLayout(data.rows, data.cols,
                [pos \in DOMAIN FloorGridInit(data.rows, data.cols) |->
                    data.grid[pos[1] + 1][pos[2] + 1]],
                LET conn_list == dict_get(data, "connections", <<>>)
                IN  [i \in 1..Len(conn_list) |->
                        RoomConnection_from_dict(conn_list[i])])

\* json.dumps / json.load of the dictionary of a floor layout: the cells
\* are Optional
json_dumps_floor(d) ==
    [d EXCEPT !.grid = [r \in 1..Len(d.grid) |->
                           [c \in 1..Len(d.grid[r]) |->
                               json_dumps_optional(d.grid[r][c])]]]
json_load_floor(j) ==
    [j EXCEPT !.grid = [r \in 1..Len(j.grid) |->
                           [c \in 1..Len(j.grid[r]) |->
                               json_load_optional(j.grid[r][c])]]]

\* Level.floor_layouts: the Level holds no floor layout (the variables of
\* the FloorLayout hold nothing) or the one of the variables
NoFloor == rows = 0 /\ cols = 0 /\ grid = <<>> /\ connections = <<>>
floor_layouts ==
    IF rows = 0 THEN <<>> ELSE <<FloorLayout(rows, cols, grid, connections)>>

\* a Level object: its four fields
Level(tts, rs, l, fls) ==
    [tile_types |-> tts, rooms |-> rs, layout |-> l, floor_layouts |-> fls]

\* the rooms a floor layout has in its cells
FloorRoomIds(fl) ==
    UNION {fl.grid[pos] : pos \in DOMAIN fl.grid}

\* validate also reporting the cells of the floor layouts that hold the id of
\* no room
Level_validate_of_ChecksFloors(self) ==
    Level_validate(self.rooms, self.layout)
    \o [i \in 1..Len(SelectSeq(self.floor_layouts,
                    LAMBDA fl : \E id \in FloorRoomIds(fl) :
                                    ~ \E i \in 1..Len(self.rooms) :
                                          self.rooms[i].id = id)) |->
           [text |-> "Floor layout references non-existent room"]]

\* Level.validate() on the object self: of the four fields of self the method
\* reads self.rooms and self.layout
Level_validate_of(self) ==
    Level_validate(self.rooms, self.layout)

\* a call of Level.validate; ret is the list it returns
validate ==
    LET errors == Level_validate_of(Level(tile_types, rooms, layout,
                                          floor_layouts))
    IN  /\ op' = "validate"
        /\ ret' = errors
        /\ branch' = IF errors = <<>> THEN "valid" ELSE "errors"
        /\ UNCHANGED <<levelVars, floorVars, room, file, cloneVars, editorVars>>

\* the document Level.to_json writes
Level_to_json(tts, rs, l, fls) ==
    [tile_types |-> tts,
     rooms |-> [i \in 1..Len(rs) |-> RoomJson(rs[i])],
     layout |-> [i \in 1..Len(l) |-> LayoutEntry_to_dict(l[i])],
     floor_layouts |-> [i \in 1..Len(fls) |->
                           json_dumps_floor(FloorLayout_to_dict(fls[i]))]]

\* json.load(f): the data Level.from_json reads from the document, which
\* has the keys the document has
json_load(doc) ==
    [key \in DOMAIN doc |->
        IF key = "rooms"
        THEN [i \in 1..Len(doc[key]) |-> json_load_room(doc[key][i])]
        ELSE IF key = "floor_layouts"
        THEN [i \in 1..Len(doc[key]) |-> json_load_floor(doc[key][i])]
        ELSE doc[key]]

\* a call of Level.to_json: the file is written, the Level is not touched
to_json ==
    /\ file' = Some(Level_to_json(tile_types, rooms, layout, floor_layouts))
    /\ op' = "to_json"
    /\ ret' = "None"
    /\ branch' = "written"
    /\ UNCHANGED <<levelVars, floorVars, room, cloneVars, editorVars>>

\* a call of Level.from_json on the file; the Level it returns replaces the
\* Level of the state. A fresh Level takes tile_types from the data, or
\* keeps its own; rooms, entries and floor layouts are appended as they
\* come in the data, none when the key is not there.
from_json ==
    /\ file # None
    /\ LET data == json_load(CHOOSE doc \in file : TRUE)
           room_list == dict_get(data, "rooms", <<>>)
           layout_list == dict_get(data, "layout", <<>>)
           floor_list == dict_get(data, "floor_layouts", <<>>)
           fls == [i \in 1..Len(floor_list) |->
                      FloorLayout_from_dict(floor_list[i])]
       IN  /\ tile_types' = dict_get(data, "tile_types", DefaultTileTypes)
           /\ rooms' = [i \in 1..Len(room_list) |->
                           Room_from_dict(room_list[i])]
           /\ layout' = [i \in 1..Len(layout_list) |->
                            LayoutEntry_from_dict(layout_list[i])]
           /\ IF fls = <<>>
              THEN rows' = 0 /\ cols' = 0 /\ grid' = <<>> /\ connections' = <<>>
              ELSE /\ rows' = fls[1].rows
                   /\ cols' = fls[1].cols
                   /\ grid' = fls[1].grid
                   /\ connections' = fls[1].connections
    /\ removedIds' = {}
    /\ op' = "from_json"
    /\ ret' = "Level"
    /\ branch' = "loaded"
    /\ UNCHANGED <<room, file, cloneVars, editorVars>>

(***************************************************************************)
(* Room objects. Where two names may refer to one object, the objects are  *)
(* in the heap, a function from addresses to objects. A Room object is a   *)
(* record whose interior, exits and theme are the addresses of a list and  *)
(* of two dicts; the list of an interior holds the addresses of its rows,  *)
(* and a row is the list of its tiles. The values of exits ({"type":       *)
(* "doorway"} or None) are replaced, never written into, so they are held  *)
(* by value.                                                               *)
(* The program sees of an address only whether two of them are the same.   *)
(* The address of an object is therefore the first way that leads to it:   *)
(* <<k, role, y>> for the k-th Room itself, its exits, its theme, its      *)
(* interior list or the y-th row of it. An object that no Room refers to   *)
(* is freed.                                                               *)
(***************************************************************************)
Address(k, role, y) == <<k, role, y>>

\* the Room the editor shows: the first Room
current_room == Address(1, "Room", 0)

\* what the attributes of the Room object at address a read as: a Room as
\* RoomInit makes it
RoomValue(h, a) ==
    [id       |-> h[a].id,
     width    |-> h[a].width,
     height   |-> h[a].height,
     interior |-> [y \in 1..Len(h[h[a].interior]) |-> h[h[h[a].interior][y]]],
     exits    |-> h[h[a].exits],
     theme    |-> h[h[a].theme]]

\* the lists of an interior as new objects: the list of the rows at the
\* address (k, list, 0) and the row y at (k, row, y)
InteriorObjects(k, list, row, interior) ==
    [a \in {Address(k, list, 0)}
            \cup {Address(k, row, y) : y \in 1..Len(interior)} |->
        IF a[2] = list THEN [y \in 1..Len(interior) |-> Address(k, row, y)]
        ELSE interior[a[3]]]

\* the objects of a new Room, the k-th, whose attributes read as v
RoomObjects(k, v) ==
    (Address(k, "Room", 0) :>
         [id |-> v.id, width |-> v.width, height |-> v.height,
          interior |-> Address(k, "interior", 0),
          exits |-> Address(k, "exits", 0),
          theme |-> Address(k, "theme", 0)])
    @@ (Address(k, "exits", 0) :> v.exits)
    @@ (Address(k, "theme", 0) :> v.theme)
    @@ InteriorObjects(k, "interior", "row", v.interior)

\* the ways from the Rooms at the addresses roots to an object
Ways(h, roots) ==
    UNION {{Address(r[1], role, 0) :
               role \in {"Room", "exits", "theme", "interior"}}
           \cup {Address(r[1], "row", y) : y \in 1..Len(h[h[r].interior])} :
           r \in roots}

\* the address of the object a way leads to
At(h, way) ==
    LET r == Address(way[1], "Room", 0)
    IN  IF way[2] = "Room" THEN r
        ELSE IF way[2] = "exits" THEN h[r].exits
        ELSE IF way[2] = "theme" THEN h[r].theme
        ELSE IF way[2] = "interior" THEN h[r].interior
        ELSE h[h[r].interior][way[3]]

\* the order of the ways: by Room, then Room, exits, theme, interior, rows
RoleIndex(role) ==
    IF role = "Room" THEN 0 ELSE IF role = "exits" THEN 1
    ELSE IF role = "theme" THEN 2 ELSE IF role = "interior" THEN 3 ELSE 4
Before(p, q) ==
    \/ p[1] < q[1]
    \/ p[1] = q[1] /\ RoleIndex(p[2]) < RoleIndex(q[2])
    \/ p[1] = q[1] /\ p[2] = q[2] /\ p[3] <= q[3]

\* the first of the ways to the object at address a
FirstWay(h, ways, a) ==
    CHOOSE p \in ways :
        /\ At(h, p) = a
        /\ \A q \in ways : At(h, q) = a => Before(p, q)

\* the heap with every object the Rooms of roots refer to at the address
\* of the first way to it, and no other object
Collect(h, roots) ==
    LET ways == Ways(h, roots)
    IN  [p \in {FirstWay(h, ways, At(h, w)) : w \in ways} |->
            LET object == h[At(h, p)]
            IN  IF p[2] = "Room"
                THEN [object EXCEPT
                         !.interior = FirstWay(h, ways, object.interior),
                         !.exits = FirstWay(h, ways, object.exits),
                         !.theme = FirstWay(h, ways, object.theme)]
                ELSE IF p[2] = "interior"
                THEN [y \in 1..Len(object) |-> FirstWay(h, ways, object[y])]
                ELSE object]

\* clone whose interior is a new list of the same row objects (a shallow
\* copy); exits and theme are new dicts
Room_clone_SharesRows(h, a) ==
    LET objects == RoomObjects(2, RoomValue(h, a))
    IN  h @@ [b \in {Address(2, role, 0) :
                        role \in {"Room", "exits", "theme", "interior"}} |->
                 IF b[2] = "interior" THEN h[h[a].interior] ELSE objects[b]]

\* clone whose exits is the dict of the original; interior and theme are
\* deep copies
Room_clone_SharesExits(h, a) ==
    LET objects == RoomObjects(2, RoomValue(h, a))
    IN  h @@ [b \in (DOMAIN objects) \ {Address(2, "exits", 0)} |->
                 IF b[2] = "Room" THEN [objects[b] EXCEPT !.exits = h[a].exits]
                 ELSE objects[b]]

\* Room.clone(): the heap afterwards. The new Room is the second one;
\* deepcopy gives it new lists and dicts of the same contents. (The lists
\* and dicts that Room.__init__ made for it are freed at once.)
Room_clone(h, a) == h @@ RoomObjects(2, RoomValue(h, a))

\* the name of the Room at address a in the branch of a call
RoomName(a) == IF a = current_room THEN "current_room" ELSE "new_room"

\* a call of clone() on the current room, as duplicate_room makes it
clone ==
    /\ new_room = None
    /\ heap' = Room_clone(heap, current_room)
    /\ new_room' = Some(Address(2, "Room", 0))
    /\ op' = "clone"
    /\ ret' = "Room"
    /\ branch' = "cloned"
    /\ UNCHANGED <<levelVars, floorVars, room, file, editorVars>>

\* a call of set_tile on the Room object at address a: the row object is
\* written into
object_set_tile(a, x, y, tile_type) ==
    /\ heap' = IF InInterior(RoomValue(heap, a).interior, x, y)
               THEN [heap EXCEPT ![heap[heap[a].interior][y + 1]][x + 1] =
                                     tile_type]
               ELSE heap
    /\ op' = "set_tile"
    /\ ret' = "None"
    /\ branch' = RoomName(a)
    /\ UNCHANGED <<new_room, levelVars, floorVars, room, file, editorVars>>

\* a call of resize on the Room object at address a: width and height are
\* assigned and self.interior becomes a new list of new rows; the old
\* lists are freed unless another Room refers to them
object_resize(a, new_width, new_height) ==
    /\ LET v == Room_resize(RoomValue(heap, a), new_width, new_height)
           resized == [heap EXCEPT
                          ![a].width = new_width,
                          ![a].height = new_height,
                          ![a].interior = Address(a[1], "new interior", 0)]
                      @@ InteriorObjects(a[1], "new interior", "new row",
                                         v.interior)
       IN  heap' = Collect(resized, {current_room} \cup new_room)
    /\ op' = "resize"
    /\ ret' = "None"
    /\ branch' = RoomName(a)
    /\ UNCHANGED <<new_room, levelVars, floorVars, room, file, editorVars>>

\* on_exits_changed on the Room object at address a: both entries of its
\* exits dict are assigned
on_exits_changed(a, left, right) ==
    /\ heap' = [heap EXCEPT ![heap[a].exits] = [left |-> left, right |-> right]]
    /\ op' = "on_exits_changed"
    /\ ret' = "None"
    /\ branch' = RoomName(a)
    /\ UNCHANGED <<new_room, levelVars, floorVars, room, file, editorVars>>

\* pick_color on the Room object at address a: one entry of its theme dict
\* is assigned
pick_color(a, color_key, color_name) ==
    /\ heap' = [heap EXCEPT ![heap[a].theme][color_key] = color_name]
    /\ op' = "pick_color"
    /\ ret' = "None"
    /\ branch' = RoomName(a)
    /\ UNCHANGED <<new_room, levelVars, floorVars, room, file, editorVars>>

(***************************************************************************)
(* UndoStack (level_editor.py): an object of three fields. undo_stack and  *)
(* redo_stack are lists of states, the last element is the top.            *)
(***************************************************************************)
\* UndoStack.__init__(max_size)
UndoStack(max_size) ==
    [max_size |-> max_size, undo_stack |-> <<>>, redo_stack |-> <<>>]

\* list[-1] and the list that list.pop() leaves
Last(l) == l[Len(l)]
Front(l) == SubSeq(l, 1, Len(l) - 1)

\* push that leaves the redo stack as it is
UndoStack_push_KeepsRedo(self, state) ==
    LET appended == Append(self.undo_stack, state)
    IN  [self EXCEPT !.undo_stack = IF Len(appended) > self.max_size
                                    THEN Tail(appended) ELSE appended]

\* UndoStack.push(state): append, pop(0) when over max_size, clear redo
UndoStack_push(self, state) ==
    LET appended == Append(self.undo_stack, state)
    IN  [self EXCEPT !.undo_stack = IF Len(appended) > self.max_size
                                    THEN Tail(appended) ELSE appended,
                     !.redo_stack = <<>>]

\* UndoStack.can_undo() / can_redo()
can_undo(self) == Len(self.undo_stack) > 0
can_redo(self) == Len(self.redo_stack) > 0

\* UndoStack.undo(): the state it returns (an Optional) and the object after
UndoStack_undo_state(self) ==
    IF can_undo(self) THEN Some(Last(self.undo_stack)) ELSE None
UndoStack_undo(self) ==
    IF can_undo(self)
    THEN [self EXCEPT !.undo_stack = Front(self.undo_stack),
                      !.redo_stack = Append(self.redo_stack,
                                            Last(self.undo_stack))]
    ELSE self

\* UndoStack.redo(): the state it returns (an Optional) and the object after
UndoStack_redo_state(self) ==
    IF can_redo(self) THEN Some(Last(self.redo_stack)) ELSE None
UndoStack_redo(self) ==
    IF can_redo(self)
    THEN [self EXCEPT !.redo_stack = Front(self.redo_stack),
                      !.undo_stack = Append(self.undo_stack,
                                            Last(self.redo_stack))]
    ELSE self

\* UndoStack.clear()
UndoStack_clear(self) == [self EXCEPT !.undo_stack = <<>>, !.redo_stack = <<>>]

\* the value of an Optional that is not None
TheValue(optional) == CHOOSE v \in optional : TRUE

\* calls of the four methods on the UndoStack held in undo_stack; ret is the
\* state returned, or "None"
push(state) ==
    /\ undo_stack' = UndoStack_push(undo_stack, state)
    /\ op' = "push"
    /\ ret' = "None"
    /\ branch' = IF Len(undo_stack.undo_stack) + 1 > undo_stack.max_size
                 THEN "dropped oldest" ELSE "appended"
    /\ UNCHANGED <<levelVars, floorVars, room, file, cloneVars, brush_size>>

stack_undo ==
    /\ undo_stack' = UndoStack_undo(undo_stack)
    /\ op' = "UndoStack.undo"
    /\ ret' = IF can_undo(undo_stack)
              THEN TheValue(UndoStack_undo_state(undo_stack)) ELSE "None"
    /\ branch' = IF can_undo(undo_stack) THEN "popped" ELSE "empty"
    /\ UNCHANGED <<levelVars, floorVars, room, file, cloneVars, brush_size>>

stack_redo ==
    /\ undo_stack' = UndoStack_redo(undo_stack)
    /\ op' = "UndoStack.redo"
    /\ ret' = IF can_redo(undo_stack)
              THEN TheValue(UndoStack_redo_state(undo_stack)) ELSE "None"
    /\ branch' = IF can_redo(undo_stack) THEN "popped" ELSE "empty"
    /\ UNCHANGED <<levelVars, floorVars, room, file, cloneVars, brush_size>>

stack_clear ==
    /\ undo_stack' = UndoStack_clear(undo_stack)
    /\ op' = "clear"
    /\ ret' = "None"
    /\ branch' = "cleared"
    /\ UNCHANGED <<levelVars, floorVars, room, file, cloneVars, brush_size>>

(***************************************************************************)
(* The room editor: RoomEditorTab (level_editor.py) and its TileCanvas     *)
(* (tile_canvas.py). current_room and canvas.room are the Room of the      *)
(* variable room, the selected room. The canvas emits tile_changed at the  *)
(* end of an edit and the slot on_tile_changed runs before the edit        *)
(* returns: it is part of the edit. deepcopy of an interior is the         *)
(* interior, a value.                                                      *)
(***************************************************************************)
DefaultMaxSize == 100  \* UndoStack(): max_size of the editor's stack
BrushItems == 5        \* the items "1x1" .. "5x5" of the brush combo

\* RoomEditorTab.__init__ and TileCanvas.__init__: an empty UndoStack(),
\* brush size 1
EditorIdle ==
    /\ undo_stack = UndoStack(DefaultMaxSize)
    /\ brush_size = 1

\* TileCanvas.set_brush_size(size)
set_brush_size(size) == IF size > 1 THEN size ELSE 1

\* RoomEditorTab.on_brush_size_changed(index)
on_brush_size_changed(index) ==
    /\ brush_size' = set_brush_size(index + 1)
    /\ op' = "on_brush_size_changed"
    /\ ret' = "None"
    /\ branch' = "set"
    /\ UNCHANGED <<levelVars, floorVars, room, file, cloneVars, undo_stack>>

\* for y in range(y1, y2 + 1): for x in range(x1, x2 + 1): the cells
\* <<x, y>> in the order of the loops
LoopCells(x1, x2, y1, y2) ==
    IF x2 < x1 \/ y2 < y1 THEN <<>>
    ELSE LET n == x2 - x1 + 1
         IN  [k \in 1..(n * (y2 - y1 + 1)) |->
                 <<x1 + ((k - 1) % n), y1 + ((k - 1) \div n)>>]

\* the body of the loops of paint_tile, fill_selection and clear_room over
\* the cells: set_tile on the cells that pass the test against
\* get_interior_width() and get_interior_height()
RECURSIVE SetTiles(_, _, _)
SetTiles(r, cells, tile_type) ==
    IF cells = <<>> THEN r
    ELSE LET x == Head(cells)[1]
             y == Head(cells)[2]
             inside == /\ 0 <= x /\ x < get_interior_width(r)
                       /\ 0 <= y /\ y < get_interior_height(r)
         IN  SetTiles(IF inside THEN Room_set_tile(r, x, y, tile_type) ELSE r,
                      Tail(cells), tile_type)

\* TileCanvas.paint_tile(tile_x, tile_y, tile_type): the room after the loops
TileCanvas_paint_tile(r, size, tile_x, tile_y, tile_type) ==
    LET half_brush == size \div 2
    IN  SetTiles(r, LoopCells(tile_x - half_brush, tile_x + half_brush,
                              tile_y - half_brush, tile_y + half_brush),
                 tile_type)

\* TileCanvas.fill_selection(tile_type) with a selection: the room after
TileCanvas_fill_selection(r, selection_start, selection_end, tile_type) ==
    LET x1 == Min(selection_start[1], selection_end[1])
        x2 == IF selection_start[1] > selection_end[1]
              THEN selection_start[1] ELSE selection_end[1]
        y1 == Min(selection_start[2], selection_end[2])
        y2 == IF selection_start[2] > selection_end[2]
              THEN selection_start[2] ELSE selection_end[2]
    IN  SetTiles(r, LoopCells(x1, x2, y1, y2), tile_type)

\* TileCanvas.clear_room(): the room after
TileCanvas_clear_room(r) ==
    SetTiles(r, LoopCells(0, get_interior_width(r) - 1,
                          0, get_interior_height(r) - 1), EMPTY)

\* RoomEditorTab.on_tile_changed, the slot of tile_changed: r is the room
\* when the signal is emitted, the UndoStack after is the value
on_tile_changed(r, us) == UndoStack_push(us, r.interior)

\* the editor is not asked for an edit once the undo list holds MaxSnapshots
\* states
CanEdit == Len(undo_stack.undo_stack) < MaxSnapshots

\* TileCanvas.paint_tile as the mouse handlers call it, on a cell of the
\* interior
paint_tile(tile_x, tile_y, tile_type) ==
    LET painted == TileCanvas_paint_tile(room, brush_size, tile_x, tile_y,
                                         tile_type)
    IN  /\ CanEdit
        /\ room' = painted
        /\ undo_stack' = on_tile_changed(painted, undo_stack)
        /\ op' = "paint_tile"
        /\ ret' = "None"
        /\ branch' = IF painted = room THEN "same tiles" ELSE "changed"
        /\ UNCHANGED <<levelVars, floorVars, file, cloneVars, brush_size>>

\* RoomEditorTab.fill_selection: canvas.fill_selection(current_tile_type).
\* The selection the middle button has left on the canvas (None, or its two
\* corners) and the current tile type are inputs of the call.
fill_selection(selection_start, selection_end, tile_type) ==
    /\ IF selection_start = None \/ selection_end = None
       THEN /\ UNCHANGED <<room, undo_stack>>
            /\ branch' = "no selection"
       ELSE LET filled == TileCanvas_fill_selection(room,
                              TheValue(selection_start),
                              TheValue(selection_end), tile_type)
            IN  /\ CanEdit
                /\ room' = filled
                /\ undo_stack' = on_tile_changed(filled, undo_stack)
                /\ branch' = IF filled = room THEN "same tiles" ELSE "changed"
    /\ op' = "fill_selection"
    /\ ret' = "None"
    /\ UNCHANGED <<levelVars, floorVars, file, cloneVars, brush_size>>

\* RoomEditorTab.clear_room: reply is the button of the question box
clear_room(reply) ==
    /\ IF reply = "Yes"
       THEN LET cleared == TileCanvas_clear_room(room)
            IN  /\ CanEdit
                /\ room' = cleared
                /\ undo_stack' = on_tile_changed(cleared, undo_stack)
                /\ branch' = IF cleared = room THEN "same tiles" ELSE "changed"
       ELSE /\ UNCHANGED <<room, undo_stack>>
            /\ branch' = "declined"
    /\ op' = "clear_room"
    /\ ret' = "None"
    /\ UNCHANGED <<levelVars, floorVars, file, cloneVars, brush_size>>

\* RoomEditorTab.on_dimensions_changed: new_width and new_height are the
\* values of the two spin boxes
on_dimensions_changed(new_width, new_height) ==
    /\ IF new_width # room.width \/ new_height # room.height
       THEN /\ room' = Room_resize(room, new_width, new_height)
            /\ branch' = "resized"
       ELSE /\ room' = room
            /\ branch' = "same size"
    /\ op' = "on_dimensions_changed"
    /\ ret' = "None"
    /\ UNCHANGED <<levelVars, floorVars, file, cloneVars, editorVars>>

\* RoomEditorTab.on_room_selected for the item of the selected room
on_room_selected ==
    /\ undo_stack' = UndoStack_clear(undo_stack)
    /\ op' = "on_room_selected"
    /\ ret' = "None"
    /\ branch' = "selected"
    /\ UNCHANGED <<levelVars, floorVars, room, file, cloneVars, brush_size>>

\* `if state:` is false for None and for a list of no row
Truthy(state) == state # None /\ TheValue(state) # <<>>

\* RoomEditorTab.undo(): the room and the UndoStack after
RoomEditorTab_undo(r, us) ==
    LET state == UndoStack_undo_state(us)
    IN  IF can_undo(us)
        THEN [room |-> IF Truthy(state)
                       THEN [r EXCEPT !.interior = TheValue(state)] ELSE r,
              undo_stack |-> UndoStack_undo(us)]
        ELSE [room |-> r, undo_stack |-> us]

\* RoomEditorTab.redo(): the room and the UndoStack after
RoomEditorTab_redo(r, us) ==
    LET state == UndoStack_redo_state(us)
    IN  IF can_redo(us)
        THEN [room |-> IF Truthy(state)
                       THEN [r EXCEPT !.interior = TheValue(state)] ELSE r,
              undo_stack |-> UndoStack_redo(us)]
        ELSE [room |-> r, undo_stack |-> us]

undo ==
    /\ room' = RoomEditorTab_undo(room, undo_stack).room
    /\ undo_stack' = RoomEditorTab_undo(room, undo_stack).undo_stack
    /\ op' = "undo"
    /\ ret' = "None"
    /\ branch' = IF ~can_undo(undo_stack) THEN "nothing to undo"
                 ELSE IF Truthy(UndoStack_undo_state(undo_stack))
                      THEN "installed" ELSE "empty state"
    /\ UNCHANGED <<levelVars, floorVars, file, cloneVars, brush_size>>

redo ==
    /\ room' = RoomEditorTab_redo(room, undo_stack).room
    /\ undo_stack' = RoomEditorTab_redo(room, undo_stack).undo_stack
    /\ op' = "redo"
    /\ ret' = "None"
    /\ branch' = IF ~can_redo(undo_stack) THEN "nothing to redo"
                 ELSE IF Truthy(UndoStack_redo_state(undo_stack))
                      THEN "installed" ELSE "empty state"
    /\ UNCHANGED <<levelVars, floorVars, file, cloneVars, brush_size>>

(***************************************************************************)
(* Initial state and specifications                                        *)
(***************************************************************************)
\* the floor layout the Level holds in SpecLevel, as the layout editor
\* leaves it: room id 1 dropped on cell (0,0) and a door to the cell on its
\* right. No method of Level writes it, the rooms come and go beside it.
LevelFloor ==
    /\ rows = 1
    /\ cols = 2
    /\ grid = [FloorGridInit(1, 2) EXCEPT ![GridPosition(0, 0)] = Some(1)]
    /\ connections = <<RoomConnection(GridPosition(0, 0), GridPosition(0, 1),
                                      "mid")>>

InitLevel ==
    /\ rooms = <<>>
    /\ layout = <<>>
    /\ removedIds = {}
    /\ tile_types = DefaultTileTypes
    /\ LevelFloor
    /\ room = RoomInit(1, 2, 2)
    /\ op = "init"
    /\ ret = "None"
    /\ branch = "init"
    /\ file = None
    /\ CloneIdle
    /\ EditorIdle

NextLevel ==
    \/ \E id \in RoomIds : add_room(RoomInit(id, LevelRoomSize, LevelRoomSize))
    \/ create_new_room
    \/ \E id \in RoomIds : remove_room(id)
    \/ \E id \in RoomIds : add_to_layout(id)
    \/ \E p \in LayoutArgs : remove_from_layout(p)
    \/ \E p \in LayoutArgs, q \in LayoutArgs : move_in_layout(p, q)

SpecLevel == InitLevel /\ [][NextLevel]_vars

\* A Level that holds the rooms 0..MaxRoomId, added in that order, and an
\* empty layout: the layout alone is edited from here.
InitLayout ==
    /\ rooms = [i \in 1..(MaxRoomId + 1) |->
                    RoomInit(i - 1, LevelRoomSize, LevelRoomSize)]
    /\ layout = <<>>
    /\ removedIds = {}
    /\ tile_types = DefaultTileTypes
    /\ LevelFloor
    /\ room = RoomInit(1, 2, 2)
    /\ op = "init"
    /\ ret = "None"
    /\ branch = "init"
    /\ file = None
    /\ CloneIdle
    /\ EditorIdle

NextLayout ==
    \/ \E id \in RoomIds : add_to_layout(id)
    \/ \E p \in LayoutArgs : remove_from_layout(p)
    \/ \E p \in LayoutArgs, q \in LayoutArgs : move_in_layout(p, q)

SpecLayout == InitLayout /\ [][NextLayout]_vars

\* the state of the Level while another object is exercised
LevelIdle ==
    /\ rooms = <<>>
    /\ layout = <<>>
    /\ removedIds = {}
    /\ tile_types = DefaultTileTypes

\* the positions set_connection is called with in SpecFloor: (0,0) and its
\* right and lower neighbours, in both orientations, as the door buttons of
\* the layout editor join them (inside the grid or not, as the extent goes)
FloorDoorEnds ==
    {<<GridPosition(0, 0), GridPosition(0, 1)>>,
     <<GridPosition(0, 1), GridPosition(0, 0)>>,
     <<GridPosition(0, 0), GridPosition(1, 0)>>,
     <<GridPosition(1, 0), GridPosition(0, 0)>>}

\* place_room is called with the id 1 or None, on a cell or one step outside
FloorRoomArgs == {None, Some(1)}
PlaceArgs == {GridPosition(r, c) : r \in 0..rows, c \in 0..cols}

InitFloor ==
    /\ LevelIdle
    /\ \E r \in 1..MaxCells, c \in 1..MaxCells :
          /\ r * c <= MaxCells
          /\ rows = r
          /\ cols = c
          /\ grid = FloorGridInit(r, c)
    /\ connections = <<>>
    /\ room = RoomInit(1, 2, 2)
    /\ op = "init"
    /\ ret = "None"
    /\ branch = "init"
    /\ file = None
    /\ CloneIdle
    /\ EditorIdle

NextFloor ==
    \/ \E pos \in PlaceArgs, v \in FloorRoomArgs : place_room(pos, v)
    \/ add_row
    \/ add_column
    \/ remove_row
    \/ remove_column
    \/ \E e \in FloorDoorEnds, d \in DoorPositions : set_connection(e[1], e[2], d)

SpecFloor == InitFloor /\ [][NextFloor]_vars

\* A FloorLayout of any extent on which the layout editor has stored a door
\* between (0,0) and the position on its right: rooms are placed and the
\* grid grows and shrinks, no door is changed.
InitCells ==
    /\ LevelIdle
    /\ \E r \in 1..MaxCells, c \in 1..MaxCells :
          /\ r * c <= MaxCells
          /\ rows = r
          /\ cols = c
          /\ grid = FloorGridInit(r, c)
    /\ connections = <<RoomConnection(GridPosition(0, 0), GridPosition(0, 1),
                                      "mid")>>
    /\ room = RoomInit(1, 2, 2)
    /\ op = "init"
    /\ ret = "None"
    /\ branch = "init"
    /\ file = None
    /\ CloneIdle
    /\ EditorIdle

NextCells ==
    \/ \E pos \in PlaceArgs, v \in FloorRoomArgs : place_room(pos, v)
    \/ add_row
    \/ add_column
    \/ remove_row
    \/ remove_column

SpecCells == InitCells /\ [][NextCells]_vars

\* GridEditorWidget.rebuild_grid: the door buttons of the grid, one to the
\* right of every cell that is not in the last column and one below every
\* cell that is not in the last row; <<from_row, from_col, to_row, to_col>>
\* are the arguments the button calls on_door_changed with
DoorButtons ==
    {<<r, c, r, c + 1>> : r \in 0..(rows - 1), c \in 0..(cols - 2)}
    \cup {<<r, c, r + 1, c>> : r \in 0..(rows - 2), c \in 0..(cols - 1)}

\* GridEditorWidget.on_door_changed
on_door_changed(from_row, from_col, to_row, to_col, door_position) ==
    set_connection(GridPosition(from_row, from_col),
                   GridPosition(to_row, to_col), door_position)

\* The grid of the layout editor: a FloorLayout of any extent, no room in it
\* or room 1 dropped on its first or on its last cell; the door buttons are
\* rebuilt with the grid after every change of the extent.
InitButtons ==
    /\ LevelIdle
    /\ \E r \in 1..MaxCells, c \in 1..MaxCells :
          /\ r * c <= MaxCells
          /\ rows = r
          /\ cols = c
          /\ grid \in {FloorGridInit(r, c),
                       [FloorGridInit(r, c) EXCEPT
                           ![GridPosition(0, 0)] = Some(1)],
                       [FloorGridInit(r, c) EXCEPT
                           ![GridPosition(r - 1, c - 1)] = Some(1)]}
    /\ connections = <<>>
    /\ room = RoomInit(1, 2, 2)
    /\ op = "init"
    /\ ret = "None"
    /\ branch = "init"
    /\ file = None
    /\ CloneIdle
    /\ EditorIdle

NextButtons ==
    \/ \E b \in DoorButtons, d \in DoorPositions :
          on_door_changed(b[1], b[2], b[3], b[4], d)
    \/ add_row
    \/ add_column
    \/ remove_row
    \/ remove_column

SpecButtons == InitButtons /\ [][NextButtons]_vars

\* the positions set_connection is called with in SpecDoors: any two of
\* three cells, equal or not, adjacent ((0,0) and a neighbour) or not
DoorCells == {GridPosition(0, 0), GridPosition(0, 1), GridPosition(1, 0)}

InitDoors ==
    /\ LevelIdle
    /\ rows = 2
    /\ cols = 2
    /\ grid = FloorGridInit(2, 2)
    /\ connections = <<>>
    /\ room = RoomInit(1, 2, 2)
    /\ op = "init"
    /\ ret = "None"
    /\ branch = "init"
    /\ file = None
    /\ CloneIdle
    /\ EditorIdle

NextDoors ==
    \E a \in DoorCells, b \in DoorCells, d \in DoorPositions :
        set_connection(a, b, d)

SpecDoors == InitDoors /\ [][NextDoors]_vars

\* the state of the FloorLayout while another object is exercised
FloorIdle ==
    /\ rows = 1
    /\ cols = 1
    /\ grid = FloorGridInit(1, 1)
    /\ connections = <<>>

\* the sizes the room under edit is constructed with and resized to, the
\* tiles painted and the coordinates they are painted at (one step beyond
\* the largest interior on every side)
RoomSides == 2..MaxRoomSide
TilePalette == {EMPTY, BLOCK}
TileCoords == (0 - 1)..(MaxRoomSide - 2)

InitRoom ==
    /\ LevelIdle
    /\ FloorIdle
    /\ \E w \in RoomSides, h \in RoomSides : room = RoomInit(1, w, h)
    /\ op = "init"
    /\ ret = "None"
    /\ branch = "init"
    /\ file = None
    /\ CloneIdle
    /\ EditorIdle

NextRoom ==
    \/ \E x \in TileCoords, y \in TileCoords, t \in TilePalette : set_tile(x, y, t)
    \/ \E x \in TileCoords, y \in TileCoords : Room_get_tile(x, y)
    \/ \E w \in RoomSides, h \in RoomSides : resize(w, h)

SpecRoom == InitRoom /\ [][NextRoom]_vars

\* the lists of at most n elements of S
SeqsUpTo(S, n) == UNION {[1..k -> S] : k \in 0..n}

\* the state of the room under edit while another object is exercised
RoomIdle == room = RoomInit(1, 2, 2)

\* Interiors as Room.from_dict takes them from a file, unchecked, for a room
\* of width 4 and height 3 (one row of two cells is the right shape):
\* well-formed with no, one and two Spawn tiles, then no row, a short row,
\* two short rows, and two rows of which the second is short.
LoadedInteriors ==
    {<<<<EMPTY, EMPTY>>>>,
     <<<<SPAWN, EMPTY>>>>,
     <<<<SPAWN, SPAWN>>>>,
     <<>>,
     <<<<EMPTY>>>>,
     <<<<EMPTY>>, <<SPAWN>>>>,
     <<<<EMPTY, SPAWN>>, <<SPAWN>>>>}

\* Room.from_dict: the constructor, then interior taken from the data
LoadedRooms ==
    {[RoomInit(id, 4, 3) EXCEPT !.interior = interior] :
        id \in {1, 2}, interior \in LoadedInteriors}

\* LayoutEntry.from_dict: any room id (3 is the id of no loaded room) and
\* any position
LoadedEntries == {LayoutEntry(id, position) : id \in {1, 3}, position \in {0, 1}}

\* Level.from_json appends the rooms and the entries of the file as they
\* come: ids may repeat, interiors may have any shape, entries may name no
\* room and positions may repeat or leave gaps.
InitValidate ==
    /\ rooms \in SeqsUpTo(LoadedRooms, MaxLoadedRooms)
    /\ layout \in SeqsUpTo(LoadedEntries, MaxLoadedLayout)
    /\ removedIds = {}
    /\ tile_types = DefaultTileTypes
    /\ FloorIdle
    /\ RoomIdle
    /\ op = "init"
    /\ ret = "None"
    /\ branch = "init"
    /\ file = None
    /\ CloneIdle
    /\ EditorIdle

NextValidate == validate

SpecValidate == InitValidate /\ [][NextValidate]_vars

\* A Level as Level.from_json loads it from a file whose layout nobody
\* checked: two rooms, and entries (of these rooms or of room 3, which is
\* not there) whose positions may repeat, leave gaps or disagree with the
\* order of the list.
InitLoaded ==
    /\ rooms = <<RoomInit(1, 4, 3), RoomInit(2, 4, 3)>>
    /\ layout \in SeqsUpTo({LayoutEntry(id, position) :
                               id \in {1, 2, 3}, position \in 0..MaxLoadedLayout},
                           MaxLoadedLayout)
    /\ removedIds = {}
    /\ tile_types = DefaultTileTypes
    /\ FloorIdle
    /\ RoomIdle
    /\ op = "init"
    /\ ret = "None"
    /\ branch = "init"
    /\ file = None
    /\ CloneIdle
    /\ EditorIdle

NextLoaded ==
    \/ \E p \in LayoutArgs : remove_from_layout(p)
    \/ \E p \in LayoutArgs, q \in LayoutArgs : move_in_layout(p, q)

SpecLoaded == InitLoaded /\ [][NextLoaded]_vars

\* the exit the export test gives a room
Doorway == [type |-> "doorway"]

\* Rooms as the editor constructs them, of width 4 and height 3: an
\* interior of one row of two cells, painted or not, and a right exit or
\* none
ConstructedRooms ==
    {[RoomInit(id, 4, 3) EXCEPT !.interior = interior, !.exits.right = exit] :
        id \in {1, 2},
        interior \in [1..1 -> [1..2 -> {EMPTY, SPAWN}]],
        exit \in {None, Some(Doorway)}}

\* Floor layouts as the layout editor builds them: a row of two cells with
\* room 1 and a door to its empty neighbour, and a column of two rooms with
\* a door between them and a door to a position outside the grid
ConstructedFloors ==
    {FloorLayout(1, 2,
                 [FloorGridInit(1, 2) EXCEPT ![GridPosition(0, 0)] = Some(1)],
                 <<RoomConnection(GridPosition(0, 0), GridPosition(0, 1), "mid")>>),
     FloorLayout(2, 1,
                 [FloorGridInit(2, 1) EXCEPT ![GridPosition(0, 0)] = Some(2),
                                             ![GridPosition(1, 0)] = Some(1)],
                 <<RoomConnection(GridPosition(1, 0), GridPosition(0, 0), "top"),
                   RoomConnection(GridPosition(0, 0), GridPosition(0, 1), "bot")>>)}

\* test_export.py: Room(1, 10, 8) with four painted tiles and a right exit,
\* added to the Level and to its layout; the Level has no floor layout
TestExportRoom ==
    LET r0 == RoomInit(1, 10, 8)
        r1 == Room_set_tile(r0, 0, 0, BLOCK)
        r2 == Room_set_tile(r1, 1, 0, BLOCK)
        r3 == Room_set_tile(r2, 0, 1, PLATFORM)
        r4 == Room_set_tile(r3, 5, 5, SEARCHABLE)
    IN  [r4 EXCEPT !.exits.right = Some(Doorway)]
TestExportLayout == <<LayoutEntry(1, 0)>>
TestExportLevel ==
    /\ rooms = <<TestExportRoom>>
    /\ layout = TestExportLayout
    /\ NoFloor

\* A constructed Level: rooms of distinct ids (add_room), layout entries of
\* rooms it holds at positions 0..n-1 (add_to_layout), and no floor layout
\* or one; or the Level of the export test.
InitJson ==
    /\ \/ /\ rooms \in {rs \in SeqsUpTo(ConstructedRooms, MaxLoadedRooms) :
                          \A i, j \in 1..Len(rs) : rs[i].id = rs[j].id => i = j}
          /\ layout \in {l \in SeqsUpTo({LayoutEntry(id, position) :
                                             id \in {1, 2},
                                             position \in 0..(MaxLoadedLayout - 1)},
                                         MaxLoadedLayout) :
                            \A k \in 1..Len(l) : /\ l[k].position = k - 1
                                                 /\ HasRoom(rooms, l[k].room_id)}
          /\ \/ NoFloor
             \/ \E fl \in ConstructedFloors :
                   /\ rows = fl.rows
                   /\ cols = fl.cols
                   /\ grid = fl.grid
                   /\ connections = fl.connections
       \/ TestExportLevel
    /\ removedIds = {}
    /\ tile_types = DefaultTileTypes
    /\ RoomIdle
    /\ op = "init"
    /\ ret = "None"
    /\ branch = "init"
    /\ file = None
    /\ CloneIdle
    /\ EditorIdle

\* the Level is exported, edited (a room removed), imported and validated
NextJson ==
    \/ to_json
    \/ from_json
    \/ validate
    \/ \E id \in {1, 2} : remove_room(id)

SpecJson == InitJson /\ [][NextJson]_vars

\* Room objects as a file holds them, for a width of 4 and a height of 3:
\* an interior of the right shape, one whose row is short, and one of two
\* short rows
FileInteriors ==
    {<<<<SPAWN, EMPTY>>>>, <<<<EMPTY>>>>, <<<<EMPTY>>, <<SPAWN>>>>}
FileRooms ==
    {RoomJson(r) : r \in {l \in LoadedRooms : l.interior \in FileInteriors}}

\* a tile_types table other than the built-in one
FileTileTypes == "0" :> [name |-> "air", solidType |-> "none"]

\* the keys a document has: all four, all but tile_types, all but
\* floor_layouts, rooms and layout alone, or none at all
FileKeys ==
    {{"tile_types", "rooms", "layout", "floor_layouts"},
     {"rooms", "layout", "floor_layouts"},
     {"tile_types", "rooms", "layout"},
     {"rooms", "layout"},
     {}}

\* The documents of a level file that Level.to_json did not write, or wrote
\* for an older version: some keys may be missing, the tile table may be
\* another one, the interiors of the rooms have any shape, and there is no
\* floor layout or one.
FileDocuments ==
    {[key \in keys |-> full[key]] :
        keys \in FileKeys,
        full \in [tile_types : {DefaultTileTypes, FileTileTypes},
                  rooms : SeqsUpTo(FileRooms, MaxLoadedRooms),
                  layout : {<<>>, <<LayoutEntry_to_dict(LayoutEntry(1, 0))>>},
                  floor_layouts :
                      {<<>>} \cup
                      {<<json_dumps_floor(FloorLayout_to_dict(fl))>> :
                          fl \in ConstructedFloors}]}

\* Level(): no rooms, no layout entries, no floor layout, the built-in tile
\* table; and a file to load
InitFile ==
    /\ rooms = <<>>
    /\ layout = <<>>
    /\ removedIds = {}
    /\ tile_types = DefaultTileTypes
    /\ NoFloor
    /\ RoomIdle
    /\ op = "init"
    /\ ret = "None"
    /\ branch = "init"
    /\ file \in {Some(doc) : doc \in FileDocuments}
    /\ CloneIdle
    /\ EditorIdle

\* the file is imported, the Level validated and exported again
NextFile ==
    \/ from_json
    \/ validate
    \/ to_json

SpecFile == InitFile /\ [][NextFile]_vars

\* the sizes of the room that is duplicated (an interior of no cell, or of
\* rows of one cell), the coordinates painted (column 1 is outside), the
\* exits chosen in the two combo boxes and the colour picked for a wall
CloneWidths == 2..3
CloneHeights == 2..MaxCloneHeight
CloneCoords == 0..1
ExitChoices == {<<None, None>>, <<None, Some(Doorway)>>}
PickedColors == {"#ff0000"}
ColorKeys == {"wall_color"}

\* the Room objects there are: the current room, and the clone once made
Rooms == {current_room} \cup new_room

\* the current room as Room(1, w, h) constructs it, not duplicated yet
InitClone ==
    /\ LevelIdle
    /\ FloorIdle
    /\ RoomIdle
    /\ \E w \in CloneWidths, h \in CloneHeights :
          heap = RoomObjects(1, RoomInit(1, w, h))
    /\ new_room = None
    /\ op = "init"
    /\ ret = "None"
    /\ branch = "init"
    /\ file = None
    /\ EditorIdle

NextClone ==
    \/ clone
    \/ \E a \in Rooms, x \in CloneCoords, y \in CloneCoords :
          object_set_tile(a, x, y, BLOCK)
    \/ \E a \in Rooms, w \in CloneWidths, h \in CloneHeights :
          object_resize(a, w, h)
    \/ \E a \in Rooms, e \in ExitChoices : on_exits_changed(a, e[1], e[2])
    \/ \E a \in Rooms, k \in ColorKeys, c \in PickedColors : pick_color(a, k, c)

SpecClone == InitClone /\ [][NextClone]_vars

\* An UndoStack(max_size) alone: the states pushed are any values, here two
\* strings.
UndoStates == {"s1", "s2"}

InitUndo ==
    /\ LevelIdle
    /\ FloorIdle
    /\ RoomIdle
    /\ op = "init"
    /\ ret = "None"
    /\ branch = "init"
    /\ file = None
    /\ CloneIdle
    /\ \E m \in 1..MaxSize : undo_stack = UndoStack(m)
    /\ brush_size = 1

NextUndo ==
    \/ \E state \in UndoStates : push(state)
    \/ stack_undo
    \/ stack_redo
    \/ stack_clear

SpecUndo == InitUndo /\ [][NextUndo]_vars

\* The room editor on the selected room: the room has height 3 and width 3
\* or 4 (an interior of one row of one or two cells; the rooms of the editor
\* are larger and the handlers do the same on them), the spin boxes show
\* these sizes, the mouse is on a cell of the canvas, the brush is 1x1.
EditorWidths == 3..4
EditorHeights == {3}
CanvasCells ==
    {<<x, y>> : x \in 0..(get_interior_width(room) - 1),
                y \in 0..(get_interior_height(room) - 1)}
Selections == {None} \cup {Some(cell) : cell \in CanvasCells}

InitEditor ==
    /\ LevelIdle
    /\ FloorIdle
    /\ \E w \in EditorWidths, h \in EditorHeights : room = RoomInit(1, w, h)
    /\ op = "init"
    /\ ret = "None"
    /\ branch = "init"
    /\ file = None
    /\ CloneIdle
    /\ EditorIdle

NextEditor ==
    \/ \E cell \in CanvasCells, t \in TilePalette : paint_tile(cell[1], cell[2], t)
    \/ \E from \in Selections, to \in Selections, t \in TilePalette :
          fill_selection(from, to, t)
    \/ \E reply \in {"Yes", "No"} : clear_room(reply)
    \/ \E w \in EditorWidths, h \in EditorHeights : on_dimensions_changed(w, h)
    \/ on_room_selected
    \/ undo
    \/ redo

SpecEditor == InitEditor /\ [][NextEditor]_vars

\* The canvas with its brush: a room of width 5 and height 3 (an interior of
\* one row of three cells), any brush of the combo, tiles painted, filled
\* and cleared; no size is changed and nothing undone.
InitCanvas ==
    /\ LevelIdle
    /\ FloorIdle
    /\ room = RoomInit(1, 5, 3)
    /\ op = "init"
    /\ ret = "None"
    /\ branch = "init"
    /\ file = None
    /\ CloneIdle
    /\ EditorIdle

NextCanvas ==
    \/ \E index \in 0..(BrushItems - 1) : on_brush_size_changed(index)
    \/ \E cell \in CanvasCells, t \in TilePalette : paint_tile(cell[1], cell[2], t)
    \/ \E from \in Selections, to \in Selections, t \in TilePalette :
          fill_selection(from, to, t)
    \/ \E reply \in {"Yes", "No"} : clear_room(reply)
    \/ on_room_selected

SpecCanvas == InitCanvas /\ [][NextCanvas]_vars

(***************************************************************************)
(* Properties of the UndoStack and of the room editor                      *)
(***************************************************************************)
\* C38: for an UndoStack with max_size m >= 1, after any sequence of push,
\* undo, redo and clear calls len(undo_stack) + len(redo_stack) <= m (so the
\* undo stack never exceeds max_size, through redo either); push empties the
\* redo stack and drops only the oldest state, and only when the stack is
\* full; undo() and redo() return None and change nothing when their stack
\* is empty.
C38_UndoStackBounded ==
    /\ [](Len(undo_stack.undo_stack) + Len(undo_stack.redo_stack)
              <= undo_stack.max_size)
    /\ [][/\ op' = "push" =>
                \A state \in UndoStates :
                    push(state) =>
                        /\ undo_stack'.redo_stack = <<>>
                        /\ undo_stack'.undo_stack =
                               IF Len(undo_stack.undo_stack) < undo_stack.max_size
                               THEN Append(undo_stack.undo_stack, state)
                               ELSE Append(Tail(undo_stack.undo_stack), state)
          /\ op' = "UndoStack.undo" /\ undo_stack.undo_stack = <<>> =>
                ret' = "None" /\ undo_stack' = undo_stack
          /\ op' = "UndoStack.redo" /\ undo_stack.redo_stack = <<>> =>
                ret' = "None" /\ undo_stack' = undo_stack]_vars

\* a push on a full stack of two states, after which the older state is gone
\* and the two on the stack differ
C38_Witness ==
    /\ op = "push"
    /\ branch = "dropped oldest"
    /\ undo_stack.max_size = 2
    /\ Len(undo_stack.undo_stack) = 2
    /\ undo_stack.undo_stack[1] # undo_stack.undo_stack[2]
    /\ undo_stack.redo_stack = <<>>

\* the edits of the canvas that emit tile_changed, by the path they took
TileEdits == {"paint_tile", "fill_selection", "clear_room"}
Emitted == {"changed", "same tiles"}

\* C33: RoomEditorTab.undo undoes the last change: after a tile edit
\* (paint_tile, fill_selection or clear_room, each of which emits
\* tile_changed) immediately followed by undo(), the interior of the current
\* room is the interior it had before that edit, and after a following
\* redo() it is the interior it had after the edit.
C33_UndoRestoresInteriorBeforeEdit ==
    [][op' \in TileEdits /\ branch' \in Emitted =>
          LET undone == RoomEditorTab_undo(room', undo_stack')
              redone == RoomEditorTab_redo(undone.room, undone.undo_stack)
          IN  /\ undone.room.interior = room.interior
              /\ redone.room.interior = room'.interior]_vars

\* C34: with brush size n, paint_tile(tx, ty, t) sets an n-by-n block of
\* tiles around (tx, ty) to t, clipped to the interior of the room, and
\* changes no tile outside that block: some block of n columns and n rows
\* that holds (tx, ty) has all its cells of the interior at t afterwards,
\* and every other cell is as it was.
C34_BrushPaintsNByNBlock ==
    [][op' = "paint_tile" =>
          \A cell \in CanvasCells, t \in TilePalette :
              paint_tile(cell[1], cell[2], t) =>
                  \E x0 \in (cell[1] - brush_size + 1)..cell[1],
                     y0 \in (cell[2] - brush_size + 1)..cell[2] :
                      \A other \in CanvasCells :
                          get_tile(room', other[1], other[2]) =
                              IF /\ other[1] \in x0..(x0 + brush_size - 1)
                                 /\ other[2] \in y0..(y0 + brush_size - 1)
                              THEN t
                              ELSE get_tile(room, other[1], other[2])]_vars

\* C37: in the room editor, after any sequence of tile edits, dimension
\* changes (on_dimensions_changed calling resize), undo() and redo() on the
\* selected room, the interior of the room has exactly height-2 rows of
\* exactly width-2 entries: no undo or redo after a resize installs a
\* snapshot taken at the old dimensions.
C37_EditorKeepsInteriorShape ==
    /\ Len(room.interior) = room.height - 2
    /\ \A y \in 1..Len(room.interior) :
           Len(room.interior[y]) = room.width - 2

(***************************************************************************)
(* Properties of the Level                                                 *)
(***************************************************************************)
\* C1: after any sequence of add_room, add_to_layout, remove_room,
\* remove_from_layout and move_in_layout calls on an empty Level, the
\* multiset of position values in layout is exactly {0, ..., len(layout)-1}:
\* every position is in that range and each value of the range occurs once.
C1_PositionsAreZeroToN ==
    /\ \A i \in 1..Len(layout) : layout[i].position \in 0..(Len(layout) - 1)
    /\ \A p \in 0..(Len(layout) - 1) :
           Cardinality({i \in 1..Len(layout) : layout[i].position = p}) = 1

\* C1 witness: an entry was removed from the middle or front of a layout and
\* at least two entries remain.
C1_Witness ==
    /\ op = "remove_from_layout"
    /\ branch = "removed"
    /\ Len(layout) >= 2

\* C8: get_next_room_id() is strictly greater than every id in rooms, is 1
\* when rooms is empty, and a room created with that id (create_new_room) is
\* accepted by add_room.
C8_NextIdExceedsAll ==
    /\ \A i \in 1..Len(rooms) : get_next_room_id(rooms) > rooms[i].id
    /\ rooms = <<>> => get_next_room_id(rooms) = 1
    /\ ~HasRoom(rooms, get_next_room_id(rooms))
    /\ op = "create_new_room" => ret = "True"

\* C8 witness: after a removal the Level still holds a room, and a room made
\* by create_new_room was accepted next to a room of another id.
C8_Witness ==
    /\ op = "create_new_room"
    /\ ret = "True"
    /\ Len(rooms) >= 2
    /\ removedIds # {}

\* C9 as claimed: get_next_room_id() never returns an id that was held by a
\* room that has since been removed.
C9_NeverReturnsFreedId == get_next_room_id(rooms) \notin removedIds

\* C9 as amended: get_next_room_id() returns the id of a removed room only
\* when that id is greater than every id still in rooms (the removed room
\* held the maximum id); an id freed below the current maximum is not returned.
C9_FreedIdBelowMaxNotReused ==
    \A f \in removedIds :
        (\E i \in 1..Len(rooms) : rooms[i].id >= f) =>
            get_next_room_id(rooms) # f

\* C9 witness: a room was removed whose id is below the id of a remaining room.
C9_Witness ==
    /\ op = "remove_room"
    /\ branch = "removed"
    /\ \E f \in removedIds : \E i \in 1..Len(rooms) : rooms[i].id > f

\* the room ids of the entries of a layout, in list order
LayoutRoomIds(l) == [i \in 1..Len(l) |-> l[i].room_id]

\* a list without its entry at 0-based index i
AllBut(l, i) == [k \in 1..(Len(l) - 1) |-> IF k <= i THEN l[k] ELSE l[k + 1]]

\* C14: add_room(room) returns False and leaves rooms unchanged when a room
\* with the same id is already held, and otherwise appends the room and
\* returns True; so, from an empty Level, the ids of the rooms are pairwise
\* distinct after any sequence of add_room and remove_room calls.
C14_AddRoomRefusesDuplicate ==
    [][/\ \A i, j \in 1..Len(rooms') : rooms'[i].id = rooms'[j].id => i = j
       /\ op' = "add_room" =>
             \A id \in RoomIds :
                 LET r == RoomInit(id, LevelRoomSize, LevelRoomSize)
                 IN  add_room(r) =>
                         IF \E i \in 1..Len(rooms) : rooms[i].id = id
                         THEN ret' = "False" /\ rooms' = rooms
                         ELSE ret' = "True" /\ rooms' = rooms \o <<r>>]_vars

\* add_room has just refused a room whose id one of two held rooms has
C14_Witness ==
    /\ op = "add_room"
    /\ ret = "False"
    /\ Len(rooms) = 2

C16_AddToLayoutAppendsOrFails ==
    [][op' = "add_to_layout" =>
       \A id \in RoomIds :
          add_to_layout(id) =>
              IF \A i \in 1..Len(rooms) : rooms[i].id # id
              THEN ret' = "False" /\ layout' = layout
              ELSE /\ ret' = "True"
                   /\ Len(layout') = Len(layout) + 1
                   /\ SubSeq(layout', 1, Len(layout)) = layout
                   /\ layout'[Len(layout')] =
                          [room_id |-> id, position |-> Len(layout)]]_vars

\* add_to_layout has just appended to a layout that held entries already
C16_Witness ==
    /\ op = "add_to_layout"
    /\ ret = "True"
    /\ Len(layout) >= 2

\* C17: move_in_layout(old, new) leaves layout unchanged when old or new is
\* outside 0..len-1; when both are in range the entry that was at index old
\* is at index new afterwards, the other entries keep their relative order,
\* and so the multiset of room ids is unchanged.
C17_MoveInLayout ==
    [][op' = "move_in_layout" =>
       \A old \in LayoutArgs, new \in LayoutArgs :
          move_in_layout(old, new) =>
              IF old \in 0..(Len(layout) - 1) /\ new \in 0..(Len(layout) - 1)
              THEN /\ Len(layout') = Len(layout)
                   /\ layout'[new + 1].room_id = layout[old + 1].room_id
                   /\ LayoutRoomIds(AllBut(layout', new)) =
                          LayoutRoomIds(AllBut(layout, old))
              ELSE layout' = layout]_vars

\* an entry of a layout naming three rooms has just been moved
C17_Witness ==
    /\ op = "move_in_layout"
    /\ branch = "moved"
    /\ Len(layout) = 3
    /\ Cardinality({layout[i].room_id : i \in 1..3}) = 3

\* C18: in every state of a Level, a layout whose positions have gaps or
\* duplicates or disagree with the order of the list (as from_json can load
\* it) included, a call of remove_from_layout(p) or move_in_layout(old,
\* new) with any integers leaves layout resequenced: afterwards the
\* positions are exactly 0..n-1 and the entries (those left by the removal;
\* those other than the moved one) are in their prior relative order.
C18_AlwaysResequenced ==
    [][\A p \in LayoutArgs :
          /\ remove_from_layout(p) =>
                LET kept(le) == le.position # p
                IN  /\ \A i \in 1..Len(layout') : layout'[i].position = i - 1
                    /\ LayoutRoomIds(layout') =
                           LayoutRoomIds(SelectSeq(layout, kept))
          /\ \A q \in LayoutArgs :
                move_in_layout(p, q) =>
                    /\ \A i \in 1..Len(layout') : layout'[i].position = i - 1
                    /\ IF p \in 0..(Len(layout) - 1) /\ q \in 0..(Len(layout) - 1)
                       THEN LayoutRoomIds(AllBut(layout', q)) =
                                LayoutRoomIds(AllBut(layout, p))
                       ELSE LayoutRoomIds(layout') = LayoutRoomIds(layout)]_vars

\* C32: in a Level reached from empty through the public operations,
\* remove_from_layout(p) with 0 <= p < len(layout) removes exactly the entry
\* at list index p (the room_ids afterwards are the old ones with element p
\* deleted, the positions are renumbered 0..n-2), and with p out of range
\* the layout (order, room_ids, positions) is unchanged.
C32_RemoveDeletesElementP ==
    [][op' = "remove_from_layout" =>
          \A p \in LayoutArgs :
              remove_from_layout(p) =>
                  IF p \in 0..(Len(layout) - 1)
                  THEN /\ Len(layout') = Len(layout) - 1
                       /\ LayoutRoomIds(layout') =
                              LayoutRoomIds(AllBut(layout, p))
                       /\ \A i \in 1..Len(layout') :
                              layout'[i].position = i - 1
                  ELSE layout' = layout]_vars

\* an entry was removed from a layout of three entries, and the two entries
\* left are of two different rooms
C32_Witness ==
    /\ op = "remove_from_layout"
    /\ branch = "removed"
    /\ Len(layout) = 2
    /\ layout[1].room_id # layout[2].room_id

\* C35: starting from an empty Level, after any sequence of add_room,
\* add_to_layout, remove_room, remove_from_layout and move_in_layout calls
\* the layout list is ordered by position: the entry at list index i has
\* position i, so the entry at a list index (move_in_layout) and the entry
\* of that position (remove_from_layout) are the same entry.
C35_IndexIsPosition ==
    \A i \in 0..(Len(layout) - 1) :
        /\ layout[i + 1].position = i
        /\ \A k \in 1..Len(layout) : layout[k].position = i => k = i + 1

\* an entry was moved to another place of a layout of three entries
C35_Witness ==
    /\ op = "move_in_layout"
    /\ branch = "moved"
    /\ Len(layout) = 3

(***************************************************************************)
(* Properties of Level.validate                                            *)
(***************************************************************************)
\* the Spawn tiles of the Level: <<i, x, y>> for the i-th room of the list
\* and the cell (x, y) of its interior
SpawnOccurrences ==
    UNION {UNION {{<<i, x, y>> :
                      x \in {c \in 0..(Len(rooms[i].interior[y + 1]) - 1) :
                                 rooms[i].interior[y + 1][c + 1] = SPAWN}} :
                  y \in 0..(Len(rooms[i].interior) - 1)} :
           i \in 1..Len(rooms)}

\* the errors of the spawn check
IsSpawnError(e) ==
    e.text \in {NoSpawnError.text, MultipleSpawnError(0, <<>>).text}

IdsUnique == \A i, j \in 1..Len(rooms) : rooms[i].id = rooms[j].id => i = j
InteriorsFit ==
    \A i \in 1..Len(rooms) :
        /\ Len(rooms[i].interior) = rooms[i].height - 2
        /\ \A y \in 1..Len(rooms[i].interior) :
              Len(rooms[i].interior[y]) = rooms[i].width - 2
ReferencesResolve ==
    \A k \in 1..Len(layout) :
        \E i \in 1..Len(rooms) : rooms[i].id = layout[k].room_id
PositionsSequential ==
    \A p \in 0..(Len(layout) - 1) :
        Cardinality({k \in 1..Len(layout) : layout[k].position = p}) = 1
OneSpawn == Cardinality(SpawnOccurrences) = 1

\* the check (1..5) an error message belongs to
CheckOf(e) ==
    IF e.text = DuplicateIdsError.text THEN 1
    ELSE IF e.text \in {HeightError(0).text, WidthError(0).text} THEN 2
    ELSE IF e.text = ReferenceError(0).text THEN 3
    ELSE IF e.text = PositionsError.text THEN 4
    ELSE 5

InteriorFits(r) ==
    /\ Len(r.interior) = r.height - 2
    /\ \A y \in 1..Len(r.interior) : Len(r.interior[y]) = r.width - 2

\* the places of the returned list that hold an interior-mismatch error of
\* the room of this id
InteriorErrorsOf(room_id) ==
    {k \in 1..Len(ret) : CheckOf(ret[k]) = 2 /\ ret[k].room = room_id}

\* C21: the interior-dimension check of validate() yields at most one error
\* per room: for a room (the only one of its id) whose interior has a wrong
\* row count and/or rows of a wrong length the returned list holds exactly
\* one interior-mismatch error of that room, and none for a room whose
\* interior is exactly height-2 rows of width-2 entries.
C21_OneInteriorErrorPerRoom ==
    op = "validate" =>
        \A i \in 1..Len(rooms) :
            (\A j \in 1..Len(rooms) : rooms[j].id = rooms[i].id => j = i) =>
                Cardinality(InteriorErrorsOf(rooms[i].id)) =
                    IF InteriorFits(rooms[i]) THEN 0 ELSE 1

\* the floor layouts and the tile tables another Level of the same rooms and
\* layout may have: no floor layout, a row whose room is 1, a column whose
\* rooms are 2 and 1 with a door to a position outside the grid
OtherFloorLayouts == {<<>>} \cup {<<fl>> : fl \in ConstructedFloors}
OtherTileTypes == {DefaultTileTypes, FileTileTypes}

\* C31: validate()'s result does not depend on floor_layouts or tile_types:
\* the list a call of validate returns is the list validate returns on every
\* Level that has the same rooms and layout and any other floor layouts
\* (their cells may hold ids of no room, their doors may lead outside the
\* grid) and any other tile table.
C31_ValidateIgnoresFloorsAndTiles ==
    [][op' = "validate" =>
          \A fls \in OtherFloorLayouts, tts \in OtherTileTypes :
              Level_validate_of(Level(tts, rooms, layout, fls)) = ret']_vars

\* validate has returned no error on a Level whose tile table is not the
\* built-in one and whose floor layout holds the id of a room the Level does
\* not have
C31_Witness ==
    /\ op = "validate"
    /\ branch = "valid"
    /\ tile_types = FileTileTypes
    /\ rows > 0
    /\ \E pos \in DOMAIN grid : \E id \in grid[pos] :
           ~ \E i \in 1..Len(rooms) : rooms[i].id = id

(***************************************************************************)
(* Properties of export and import                                         *)
(***************************************************************************)
\* the file holds what to_json writes for the Level as it is now
FileIsExportOfLevel ==
    file = Some(Level_to_json(tile_types, rooms, layout, floor_layouts))

\* the file holds what to_json writes for the Level of the export test
FileIsExportOfTest ==
    file = Some(Level_to_json(DefaultTileTypes, <<TestExportRoom>>,
                              TestExportLayout, <<>>))

\* C12: for a constructed Level (rooms, layout entries, a floor layout with
\* placed rooms and connections), from_json of what to_json wrote gives an
\* equal rooms list (ids, dimensions, interiors, exits, themes, in the same
\* order), an equal layout (room_id and position of every entry, in order)
\* and equal floor layouts (rows, cols, every cell, the same set of
\* connections).
C12_RoundTrip ==
    [][(from_json /\ FileIsExportOfLevel) =>
          /\ rooms' = rooms
          /\ layout' = layout
          /\ rows' = rows
          /\ cols' = cols
          /\ grid' = grid
          /\ {connections'[i] : i \in 1..Len(connections')} =
                 {connections[i] : i \in 1..Len(connections)}]_vars

\* a Level of two rooms (a Spawn tile, a right exit), a layout and a floor
\* layout of two placed rooms and two doors has just been imported from its
\* own export
C12_Witness ==
    /\ op = "from_json"
    /\ FileIsExportOfLevel
    /\ Len(rooms) = 2
    /\ \E i \in 1..2 : rooms[i].exits.right = Some(Doorway)
    /\ \E i \in 1..2 : rooms[i].interior[1][2] = SPAWN
    /\ Len(layout) = 2
    /\ rows = 2
    /\ grid[GridPosition(1, 0)] = Some(1)
    /\ Len(connections) = 2

C25_AbsentKeysDefault ==
    [][op' = "from_json" =>
          \E doc \in file :
              /\ branch' = "loaded"
              /\ tile_types' = IF "tile_types" \in DOMAIN doc
                               THEN doc.tile_types ELSE DefaultTileTypes
              /\ "floor_layouts" \notin DOMAIN doc =>
                     /\ rows' = 0
                     /\ cols' = 0
                     /\ grid' = <<>>
                     /\ connections' = <<>>
              /\ "rooms" \in DOMAIN doc =>
                     /\ Len(rooms') = Len(doc.rooms)
                     /\ \A i \in 1..Len(doc.rooms) :
                           RoomJson(rooms'[i]) = doc.rooms[i]
              /\ "layout" \in DOMAIN doc =>
                     /\ Len(layout') = Len(doc.layout)
                     /\ \A i \in 1..Len(doc.layout) :
                           LayoutEntry_to_dict(layout'[i]) = doc.layout[i]
      ]_vars

\* a document of two rooms and a layout entry, without the tile_types and
\* floor_layouts keys, has just been loaded
C25_Witness ==
    /\ op = "from_json"
    /\ \E doc \in file : DOMAIN doc = {"rooms", "layout"}
    /\ Len(rooms) = 2
    /\ Len(layout) = 1
    /\ tile_types = DefaultTileTypes
    /\ NoFloor

\* C22: to_json and from_json check the interior invariant: a room whose
\* interior is not height-2 rows of width-2 entries is reported as a failure
\* by the call, so from_json never returns a Level holding such a room and
\* to_json never writes the file for a Level holding one.
C22_ExportImportCheckInterior ==
    (branch = "loaded" \/ branch = "written") =>
        \A i \in 1..Len(rooms) : InteriorFits(rooms[i])

(***************************************************************************)
(* Properties of the FloorLayout                                           *)
(***************************************************************************)
StoredDoors == {"top", "mid", "bot"}

\* the cells of the bottom row / the right column of the grid
BottomRow == {GridPosition(rows - 1, c) : c \in 0..(cols - 1)}
RightColumn == {GridPosition(r, cols - 1) : r \in 0..(rows - 1)}

\* the records of conns that do not join a and b, in list order
OtherThan(conns, a, b) ==
    LET other(c) == ~((c.from_pos = a /\ c.to_pos = b) \/
                      (c.from_pos = b /\ c.to_pos = a))
    IN  SelectSeq(conns, other)

\* C2: after set_connection(A, B, d) with d in {top, mid, bot}, both
\* get_connection(A, B) and get_connection(B, A) return a connection whose
\* door_position is d, whichever orientation was stored for the pair before.
C2_SetThenGetEitherWay ==
    [][\A a \in DoorCells, b \in DoorCells, d \in StoredDoors :
          set_connection(a, b, d) =>
              /\ get_connection(connections', a, b) # None
              /\ get_connection(connections', b, a) # None
              /\ \A c \in get_connection(connections', a, b) : c.door_position = d
              /\ \A c \in get_connection(connections', b, a) : c.door_position = d
      ]_vars

\* C2 witness: a door stored as (B, A) was set again as (A, B) with
\* door_position top, while a door of another pair is stored before it.
C2_Witness ==
    /\ op = "set_connection"
    /\ branch = "reverse/top"
    /\ Len(connections) = 2
    /\ connections[2].door_position = "top"

\* C3: after set_connection(A, B, "none") both get_connection(A, B) and
\* get_connection(B, A) return None, whether the door was stored as (A, B)
\* or as (B, A), and the connections of the other pairs are unchanged.
C3_SetNoneRemoves ==
    [][\A a \in DoorCells, b \in DoorCells :
          set_connection(a, b, "none") =>
              /\ get_connection(connections', a, b) = None
              /\ get_connection(connections', b, a) = None
              /\ OtherThan(connections', a, b) = OtherThan(connections, a, b)
      ]_vars

\* C3 witness: a door stored in the reverse orientation was set to "none"
\* and the door of another pair is still stored.
C3_Witness ==
    /\ op = "set_connection"
    /\ branch = "reverse/none"
    /\ Len(connections) = 1

\* C4: connections holds at most one record per unordered pair of positions:
\* no two records join the same two positions, in either orientation.
C4_OneRecordPerPair ==
    \A i \in 1..Len(connections), j \in 1..Len(connections) :
        i # j => ~Joins(connections[j], connections[i].from_pos,
                        connections[i].to_pos)

\* C4 witness: two doors are stored, the last written over a record that
\* was kept in the reverse orientation.
C4_Witness ==
    /\ op = "set_connection"
    /\ branch \in {"reverse/top", "reverse/mid", "reverse/bot"}
    /\ Len(connections) = 2

\* C5: remove_row() on a grid whose bottom row has a non-None cell returns
\* False and leaves rows, cols, every cell and connections unchanged; the
\* same for remove_column() and the right column.
C5_ShrinkRefusedWhenOccupied ==
    [][/\ (remove_row /\ \E pos \in BottomRow : grid[pos] # None) =>
            /\ ret' = "False"
            /\ UNCHANGED <<rows, cols, grid, connections>>
       /\ (remove_column /\ \E pos \in RightColumn : grid[pos] # None) =>
            /\ ret' = "False"
            /\ UNCHANGED <<rows, cols, grid, connections>>
      ]_vars

\* C5 witness: remove_row was refused on a grid of two columns whose bottom
\* row has its first cell empty and its second cell occupied, with a door stored.
C5_Witness ==
    /\ op = "remove_row"
    /\ branch = "not empty"
    /\ ret = "False"
    /\ cols = 2
    /\ grid[GridPosition(rows - 1, 0)] = None
    /\ grid[GridPosition(rows - 1, 1)] # None
    /\ connections # <<>>

\* C6 as claimed: on every grid whose bottom row (right column) is None in
\* every cell, remove_row() (remove_column()) returns True and decrements
\* rows (cols) by 1, leaving the other extent and the remaining cells unchanged.
C6_ShrinkSucceedsWhenEmpty ==
    [][/\ (remove_row /\ \A pos \in BottomRow : grid[pos] = None) =>
            /\ ret' = "True"
            /\ rows' = rows - 1
            /\ cols' = cols
            /\ \A pos \in DOMAIN grid \ BottomRow : GridGet(grid', pos) = grid[pos]
       /\ (remove_column /\ \A pos \in RightColumn : grid[pos] = None) =>
            /\ ret' = "True"
            /\ cols' = cols - 1
            /\ rows' = rows
            /\ \A pos \in DOMAIN grid \ RightColumn : GridGet(grid', pos) = grid[pos]
      ]_vars

\* C6 as amended: the same, on a grid of more than one row (column); on a
\* grid of a single row (column) the call returns False.
C6_ShrinkSucceedsWhenEmptyAndNotLast ==
    [][/\ (remove_row /\ \A pos \in BottomRow : grid[pos] = None) =>
            IF rows > 1
            THEN /\ ret' = "True"
                 /\ rows' = rows - 1
                 /\ cols' = cols
                 /\ \A pos \in DOMAIN grid \ BottomRow :
                        pos \in DOMAIN grid' /\ grid'[pos] = grid[pos]
            ELSE ret' = "False"
       /\ (remove_column /\ \A pos \in RightColumn : grid[pos] = None) =>
            IF cols > 1
            THEN /\ ret' = "True"
                 /\ cols' = cols - 1
                 /\ rows' = rows
                 /\ \A pos \in DOMAIN grid \ RightColumn :
                        pos \in DOMAIN grid' /\ grid'[pos] = grid[pos]
            ELSE ret' = "False"
      ]_vars

\* C6 witness: remove_row succeeded and the remaining grid holds a room.
C6_Witness ==
    /\ op = "remove_row"
    /\ branch = "removed"
    /\ ret = "True"
    /\ \E pos \in DOMAIN grid : grid[pos] # None

\* C7: rows >= 1 and cols >= 1 always, and remove_row() (remove_column()) on
\* a grid of a single row (column) returns False without changing the state.
C7_ExtentNeverZero ==
    /\ [](rows >= 1 /\ cols >= 1)
    /\ [][/\ (remove_row /\ rows = 1) =>
               /\ ret' = "False"
               /\ UNCHANGED <<rows, cols, grid, connections>>
          /\ (remove_column /\ cols = 1) =>
               /\ ret' = "False"
               /\ UNCHANGED <<rows, cols, grid, connections>>
         ]_vars

\* C7 witness: remove_row was refused on a grid of a single, empty row.
C7_Witness ==
    /\ op = "remove_row"
    /\ branch = "last row"
    /\ ret = "False"
    /\ rows = 1
    /\ \A pos \in DOMAIN grid : grid[pos] = None

\* the cells of a grid of the extent rows x cols
InRange == {GridPosition(r, c) : r \in 0..(rows - 1), c \in 0..(cols - 1)}

\* C26: for a freshly constructed FloorLayout, after any sequence of
\* add_row, add_column, remove_row, remove_column, place_room (any position,
\* in range or not) and set_connection calls, the keys of grid are exactly
\* the positions (r, c) with 0 <= r < rows and 0 <= c < cols.
C26_GridIsDense == DOMAIN grid = InRange

\* place_room has just been called with a position outside a grid of two
\* rows and two columns that holds a room
C26_Witness ==
    /\ op = "place_room"
    /\ branch = "outside grid"
    /\ rows = 2
    /\ cols = 2
    /\ \E pos \in DOMAIN grid : grid[pos] # None

\* C27: add_row() and add_column() always succeed: add_row increments rows
\* by exactly 1 (add_column increments cols by exactly 1), every cell of the
\* new bottom row (right column) is None, and every cell there was keeps
\* its value; the other extent and connections are unchanged.
C27_GrowthAppendsEmptyCells ==
    [][/\ op' = "add_row" =>
             /\ ret' = "None"
             /\ rows' = rows + 1
             /\ cols' = cols
             /\ connections' = connections
             /\ \A c \in 0..(cols - 1) :
                   /\ GridPosition(rows, c) \in DOMAIN grid'
                   /\ grid'[GridPosition(rows, c)] = None
             /\ \A pos \in DOMAIN grid :
                   pos \in DOMAIN grid' /\ grid'[pos] = grid[pos]
       /\ op' = "add_column" =>
             /\ ret' = "None"
             /\ cols' = cols + 1
             /\ rows' = rows
             /\ connections' = connections
             /\ \A r \in 0..(rows - 1) :
                   /\ GridPosition(r, cols) \in DOMAIN grid'
                   /\ grid'[GridPosition(r, cols)] = None
             /\ \A pos \in DOMAIN grid :
                   pos \in DOMAIN grid' /\ grid'[pos] = grid[pos]
      ]_vars

\* a row has just been added below a row of two cells, one of which holds
\* a room, with a door stored
C27_Witness ==
    /\ op = "add_row"
    /\ rows = 2
    /\ cols = 2
    /\ grid[GridPosition(0, 1)] # None
    /\ grid[GridPosition(1, 0)] = None
    /\ grid[GridPosition(1, 1)] = None
    /\ connections # <<>>

\* C28: place_room(pos, v) with pos inside the grid sets exactly that cell
\* to v (a room id or None; the id need not be that of a room of any Level)
\* and leaves every other cell, rows, cols and connections unchanged; with
\* pos outside the grid it changes nothing and adds no entry.
C28_PlaceRoomOverwritesOneCell ==
    [][op' = "place_room" =>
          \A pos \in PlaceArgs, v \in FloorRoomArgs :
              place_room(pos, v) =>
                  /\ rows' = rows
                  /\ cols' = cols
                  /\ connections' = connections
                  /\ DOMAIN grid' = DOMAIN grid
                  /\ \A p \in DOMAIN grid :
                        grid'[p] = IF p = pos THEN v ELSE grid[p]
      ]_vars

\* the id 1, which is the id of no room of the Level, has just been placed
\* on the second cell of a grid whose first cell holds a room already, with
\* a door stored
C28_Witness ==
    /\ op = "place_room"
    /\ branch = "in grid"
    /\ rooms = <<>>
    /\ cols >= 2
    /\ grid[GridPosition(0, 0)] = Some(1)
    /\ grid[GridPosition(0, 1)] = Some(1)
    /\ connections # <<>>

\* C29: after a successful remove_row() (remove_column()) no stored
\* connection has an endpoint whose row (col) is the removed index, and
\* every connection of which both endpoints are cells of the remaining grid
\* is still stored, with the same door_position.
C29_ShrinkPrunesConnections ==
    [][/\ (op' = "remove_row" /\ ret' = "True") =>
             /\ \A i \in 1..Len(connections') :
                   /\ connections'[i].from_pos[1] # rows - 1
                   /\ connections'[i].to_pos[1] # rows - 1
             /\ \A i \in 1..Len(connections) :
                   (/\ connections[i].from_pos \in DOMAIN grid'
                    /\ connections[i].to_pos \in DOMAIN grid') =>
                       \E j \in 1..Len(connections') :
                           connections'[j] = connections[i]
       /\ (op' = "remove_column" /\ ret' = "True") =>
             /\ \A i \in 1..Len(connections') :
                   /\ connections'[i].from_pos[2] # cols - 1
                   /\ connections'[i].to_pos[2] # cols - 1
             /\ \A i \in 1..Len(connections) :
                   (/\ connections[i].from_pos \in DOMAIN grid'
                    /\ connections[i].to_pos \in DOMAIN grid') =>
                       \E j \in 1..Len(connections') :
                           connections'[j] = connections[i]
      ]_vars

\* the bottom row of a grid of two columns has just been removed; the door
\* between the two cells of the row that is left is still stored
C29_Witness ==
    /\ op = "remove_row"
    /\ ret = "True"
    /\ rows = 1
    /\ cols = 2
    /\ Len(connections) = 1
    /\ Joins(connections[1], GridPosition(0, 0), GridPosition(0, 1))

\* C30: starting from a freshly constructed FloorLayout, after any sequence
\* of set_connection calls with door_position none, top, mid or bot and of
\* calls that grow or shrink the grid, no stored connection has
\* door_position "none": every stored door_position is top, mid or bot.
C30_NoneIsNeverStored ==
    \A i \in 1..Len(connections) : connections[i].door_position \in StoredDoors

\* set_connection has just been called with "none" for a pair that had a
\* door, and the door of another pair is still stored
C30_Witness ==
    /\ op = "set_connection"
    /\ branch \in {"same/none", "reverse/none"}
    /\ Len(connections) = 1

\* C36: when set_connection is only called with both ends inside the
\* current grid (the layout editor calls it for a cell and the cell on its
\* right or below it), after any sequence of set_connection, add_row,
\* add_column, remove_row and remove_column calls every stored connection
\* has both ends inside the current rows x cols grid.
C36_DoorsStayInsideGrid ==
    \A i \in 1..Len(connections) :
        /\ connections[i].from_pos \in InRange
        /\ connections[i].to_pos \in InRange

\* the last column was removed from a grid with doors, and a door between
\* cells of the columns left is kept
C36_Witness ==
    /\ op = "remove_column"
    /\ branch = "removed"
    /\ connections # <<>>

(***************************************************************************)
(* Properties of the Room                                                  *)
(***************************************************************************)
\* C10: for a room of total size (W, H) and a new size (W2, H2), all four
\* >= 2, resize(W2, H2) completes and yields an interior of exactly H2-2
\* rows by W2-2 columns in which the cell (x, y) keeps its value when
\* x < min(W, W2)-2 and y < min(H, H2)-2 and is Empty otherwise.
C10_ResizeKeepsOverlap ==
    [][\A w2 \in RoomSides, h2 \in RoomSides :
          resize(w2, h2) =>
              /\ ret' = "None"
              /\ room'.width = w2
              /\ room'.height = h2
              /\ Len(room'.interior) = h2 - 2
              /\ \A y \in 0..(h2 - 3) :
                    /\ Len(room'.interior[y + 1]) = w2 - 2
                    /\ \A x \in 0..(w2 - 3) :
                          room'.interior[y + 1][x + 1] =
                              IF /\ x < Min(room.width, w2) - 2
                                 /\ y < Min(room.height, h2) - 2
                              THEN room.interior[y + 1][x + 1]
                              ELSE EMPTY
      ]_vars

\* C10 witness: a resize made the room wider and shorter, a painted tile
\* survived it in the top row and the new right column is Empty below it.
C10_Witness ==
    /\ op = "resize"
    /\ branch = "wider/shorter"
    /\ room.width = 4
    /\ room.height = 3
    /\ room.interior = <<<<BLOCK, EMPTY>>>>

\* C19: for a room whose interior is h rows by w columns (h = 0 or w = 0
\* too) and any integers x, y: when 0 <= x < w and 0 <= y < h, set_tile(x,
\* y, t) changes exactly the cell (x, y) and get_tile(x, y) then returns t;
\* otherwise set_tile changes nothing and get_tile(x, y) returns Empty.
\* Both calls complete for every x and y.
C19_TileAccessInBounds ==
    [][/\ op' = "set_tile" =>
             \A x \in TileCoords, y \in TileCoords, t \in TilePalette :
                 set_tile(x, y, t) =>
                     LET w == room.width - 2
                         h == room.height - 2
                         inside == 0 <= x /\ x < w /\ 0 <= y /\ y < h
                     IN  /\ room'.id = room.id
                         /\ room'.width = room.width
                         /\ room'.height = room.height
                         /\ room'.exits = room.exits
                         /\ room'.theme = room.theme
                         /\ Len(room'.interior) = h
                         /\ \A j \in 0..(h - 1) :
                               /\ Len(room'.interior[j + 1]) = w
                               /\ \A i \in 0..(w - 1) :
                                     room'.interior[j + 1][i + 1] =
                                         IF inside /\ i = x /\ j = y THEN t
                                         ELSE room.interior[j + 1][i + 1]
                         /\ get_tile(room', x, y) = IF inside THEN t ELSE EMPTY
       /\ op' = "get_tile" =>
             \A x \in TileCoords, y \in TileCoords :
                 Room_get_tile(x, y) =>
                     LET w == room.width - 2
                         h == room.height - 2
                         inside == 0 <= x /\ x < w /\ 0 <= y /\ y < h
                     IN  /\ room' = room
                         /\ ret' = IF inside THEN room.interior[y + 1][x + 1]
                                   ELSE EMPTY
      ]_vars

\* get_tile has just read back a Block painted in column 0 of an interior
\* that has a second column
C19_Witness ==
    /\ op = "get_tile"
    /\ branch = "in interior"
    /\ ret = BLOCK
    /\ room.width = 4
    /\ room.interior[1][1] = BLOCK
    /\ room.interior[1][2] = EMPTY

\* C23: for a Room constructed with width >= 2 and height >= 2, after any
\* sequence of set_tile calls (any coordinates) and resize calls (new width
\* and height >= 2) the interior has exactly height-2 rows, every row has
\* exactly width-2 entries, and get_interior_width() /
\* get_interior_height() are the length of every row / the number of rows.
C23_InteriorMatchesSize ==
    /\ room.width >= 2
    /\ room.height >= 2
    /\ Len(room.interior) = room.height - 2
    /\ \A y \in 1..Len(room.interior) : Len(room.interior[y]) = room.width - 2
    /\ get_interior_height(room) = Len(room.interior)
    /\ \A y \in 1..Len(room.interior) :
          get_interior_width(room) = Len(room.interior[y])

\* a painted room has just been made narrower and taller: its interior is
\* two rows of one cell, the painted one on top
C23_Witness ==
    /\ op = "resize"
    /\ branch = "narrower/taller"
    /\ room.width = 3
    /\ room.height = 4
    /\ room.interior = <<<<BLOCK>>, <<EMPTY>>>>

\* the calls that write into a Room object
RoomMutators == {"set_tile", "resize", "on_exits_changed", "pick_color"}

\* C24: clone() returns a Room with the id, width, height, interior
\* contents, exits and theme of the original and leaves the original as it
\* was; and the two are independent: a later set_tile, resize, exits or
\* theme mutation of either room leaves the attributes of the other
\* unchanged.
C24_CloneIsIndependentCopy ==
    [][/\ op' = "clone" =>
             \E a \in new_room' :
                 /\ a # current_room
                 /\ RoomValue(heap', a) = RoomValue(heap, current_room)
                 /\ RoomValue(heap', current_room) =
                        RoomValue(heap, current_room)
       /\ op' \in RoomMutators =>
             \A a \in new_room :
                 /\ new_room' = new_room
                 /\ branch' = "current_room" =>
                        RoomValue(heap', a) = RoomValue(heap, a)
                 /\ branch' = "new_room" =>
                        RoomValue(heap', current_room) =
                            RoomValue(heap, current_room)
      ]_vars

\* since the clone was made the original was painted and had its wall
\* coloured, and the clone was given a right exit and has just been
\* resized: the two rooms differ in size, interior, exits and theme
C24_Witness ==
    /\ op = "resize"
    /\ branch = "new_room"
    /\ \E a \in new_room :
          LET original == RoomValue(heap, current_room)
              copy == RoomValue(heap, a)
          IN  /\ original.interior = <<<<BLOCK>>>>
              /\ copy.interior = <<>>
              /\ original.height = 3
              /\ copy.height = 2
              /\ original.exits.right = None
              /\ copy.exits.right = Some(Doorway)
              /\ original.theme.wall_color = "#ff0000"
              /\ copy.theme.wall_color = "darkgray"

====
